---- MODULE Spec2Model ----
(***************************************************************************)
(* Key / uniform construction of src/gpu/graphite/KeyHelpers.cpp.          *)
(*                                                                         *)
(* A conversion is a chain of calls on a PaintParamsKeyBuilder and an      *)
(* optional PipelineDataGatherer.  The pair, together with the shader-code *)
(* dictionary and the build flavour, is carried as one record `s` through  *)
(* operators that are named after the C++ functions they model; the        *)
(* actions at the end of the module apply them to the variables.           *)
(***************************************************************************)
EXTENDS FiniteSets, Integers, Sequences, TLC

VARIABLES
    debugBuild,   \* TRUE: SK_DEBUG build (SkASSERT / SkDEBUGFAIL are fatal)
    gatherer,     \* TRUE: the PipelineDataGatherer* is non-null
    key,          \* PaintParamsKeyBuilder: the ids in beginBlock order
    stack,        \* PaintParamsKeyBuilder: the open blocks
    uniforms,     \* PipelineDataGatherer: the typed writes, in order
    resources,    \* PipelineDataGatherer: the texture bindings, in order
    log,          \* every call made on builder and gatherer by the last operation
    dict,         \* ShaderCodeDictionary: the interned runtime effects, in id order
    rtEffectDict, \* RuntimeEffectDictionary: the <<snippet id, effect>> pairs set
    keyContext,   \* KeyContext::dstColorInfo(): [colorSpace, alphaType]
    status,       \* "ok", "abort" (a fatal check fired) or "ub" (undefined behaviour)
    pre,          \* the builder/gatherer as they were when the last operation began
    lastOp,       \* the last operation and its arguments
    effect,       \* the effect tree the client holds
    ops,          \* operations issued on the builder since its last reset
    gin,          \* arguments handed to the GradientData constructor
    gdata,        \* the GradientData it built
    threads,      \* the recording threads that share the dictionary, each with its builder
    paintDict,    \* ShaderCodeDictionary: the paint keys it holds, in UniquePaintParamsID order
    combo,        \* the SkCombinationBuilder: arena, shader options, blend modes
    client,       \* what the builder's client holds: option handles and blender ids
    canvas,       \* the SkCanvas a render node draws on: its stack of saves
    scoped        \* the ScopedRenderContext objects of one RenderNode::onRender

vars == <<debugBuild, gatherer, key, stack, uniforms, resources, log, dict,
          rtEffectDict, keyContext, status, pre, lastOp, effect, ops, gin, gdata,
          threads, paintDict, combo, client, canvas, scoped>>

\* what a conversion on a single builder leaves alone
others == <<threads, paintDict, combo, client, canvas, scoped>>

-----------------------------------------------------------------------------
(* Bounds of the model *)

\* operations issued on one builder between two resets (writer specification)
MaxOps == 1
\* conversions of the held effect tree between two resets (tree specification)
MaxConversions == 2
\* largest gradient stop count tried
MaxStops == 10
\* distinct caller colour tokens
MaxColor == 2
\* recording threads that share one dictionary
MaxThreads == 2
\* paints each thread converts
MaxPaints == 2
\* calls the client makes on one SkCombinationBuilder
MaxCalls == 4
\* options one generation of the builder's arena holds
MaxOptions == 3
\* largest id the dictionary hands out for a blender
MaxBlenderID == 2
\* calls made on the ScopedRenderContext objects of one onRender
MaxRenderCalls == 3
\* longest uniform data a ShaderData is compared with
MaxDataLen == 2

-----------------------------------------------------------------------------
(* Snippet ids *)

kNumInternalStorageStops == 8

BuiltInCodeSnippetID ==
    << "kError", "kPriorOutput", "kSolidColorShader",
       "kLinearGradientShader4", "kLinearGradientShader8", "kLinearGradientShaderTexture",
       "kRadialGradientShader4", "kRadialGradientShader8", "kRadialGradientShaderTexture",
       "kSweepGradientShader4", "kSweepGradientShader8", "kSweepGradientShaderTexture",
       "kConicalGradientShader4", "kConicalGradientShader8", "kConicalGradientShaderTexture",
       "kLocalMatrixShader", "kImageShader", "kYUVImageShader", "kCoordClampShader",
       "kDitherShader", "kPerlinNoiseShader", "kColorFilterShader",
       "kMatrixColorFilter", "kComposeColorFilter", "kTableColorFilter",
       "kGaussianColorFilter", "kColorSpaceXformColorFilter",
       "kBlendShader", "kBlendModeBlender", "kCoeffBlender",
       "kDstColor", "kPrimitiveColor", "kDstReadSample", "kDstReadFetch" >>

kBuiltInCodeSnippetIDCount == Len(BuiltInCodeSnippetID)

SnippetIndex ==
    [n \in {BuiltInCodeSnippetID[i] : i \in 1..kBuiltInCodeSnippetIDCount} |->
        CHOOSE i \in 1..kBuiltInCodeSnippetIDCount : BuiltInCodeSnippetID[i] = n]

ID(name) == SnippetIndex[name]

kErrorColor == <<1, 0, 0, 1>>

-----------------------------------------------------------------------------
(* PaintParamsKeyBuilder and PipelineDataGatherer *)

Ev(op, arg) == [op |-> op, arg |-> arg]

Halt(s, how) == IF s.status = "ok" THEN [s EXCEPT !.status = how] ELSE s

\* SkASSERT(cond): fatal in a debug build, compiled out otherwise
SkASSERT(s, cond) == IF s.debug /\ ~cond THEN Halt(s, "abort") ELSE s

\* SkDEBUGFAIL(msg): fatal in a debug build, compiled out otherwise
SkDEBUGFAIL(s) == IF s.debug THEN Halt(s, "abort") ELSE s

\* SkUNREACHABLE: aborts in a debug build, __builtin_unreachable() otherwise
SkUNREACHABLE(s) == IF s.debug THEN Halt(s, "abort") ELSE Halt(s, "ub")

beginBlock(s, id) ==
    IF s.status # "ok" THEN s
    ELSE [s EXCEPT !.key = Append(@, id),
                   !.stack = Append(@, id),
                   !.log = Append(@, Ev("begin", [id |-> id]))]

\* a builder that closes the oldest open block instead of the newest
endBlock_Fifo(s) ==
    IF s.status # "ok" THEN s
    ELSE IF s.stack = <<>> THEN SkUNREACHABLE(s)
    ELSE [s EXCEPT !.stack = Tail(@),
                   !.log = Append(@, Ev("end", [id |-> Head(s.stack)]))]

endBlock(s) ==
    IF s.status # "ok" THEN s
    ELSE IF s.stack = <<>> THEN SkUNREACHABLE(s)
    ELSE [s EXCEPT !.stack = SubSeq(@, 1, Len(@) - 1),
                   !.log = Append(@, Ev("end", [id |-> s.stack[Len(s.stack)]]))]

\* one typed write: fn is the gatherer method, ty the C++ / SkSL type of the
\* value, n the element count, val the value flattened to integers
W(fn, ty, n, val) == [fn |-> fn, ty |-> ty, n |-> n, val |-> val]

write(s, w) ==
    IF s.status # "ok" THEN s
    ELSE IF ~s.gatherer THEN Halt(s, "ub")
    ELSE [s EXCEPT !.uniforms = Append(@, w),
                   !.log = Append(@, Ev("write", w))]

RECURSIVE writeAll(_, _)
writeAll(s, ws) ==
    IF ws = <<>> THEN s ELSE writeAll(write(s, Head(ws)), Tail(ws))

\* one resource binding
R(sampling, tileModes, proxy) ==
    [sampling |-> sampling, tileModes |-> tileModes, proxy |-> proxy]

add(s, r) ==
    IF s.status # "ok" THEN s
    ELSE IF ~s.gatherer THEN Halt(s, "ub")
    ELSE [s EXCEPT !.resources = Append(@, r),
                   !.log = Append(@, Ev("add", r))]

\* VALIDATE_UNIFORMS: a UniformExpectationsValidator exists in debug builds only
VALIDATE_UNIFORMS(s, id) ==
    IF s.status # "ok" \/ ~s.debug THEN s
    ELSE IF ~s.gatherer THEN Halt(s, "ub")
    ELSE [s EXCEPT !.log = Append(@, Ev("validate", [id |-> id]))]

-----------------------------------------------------------------------------
(* Leaf block writers *)

PriorOutputBlock_BeginBlock(s) == beginBlock(s, ID("kPriorOutput"))

add_solid_uniform_data(s, premulColor) ==
    write(VALIDATE_UNIFORMS(s, ID("kSolidColorShader")),
          W("write", "SkPMColor4f", 1, premulColor))

SolidColorShaderBlock_BeginBlock(s, premulColor) ==
    LET s1 == IF s.gatherer THEN add_solid_uniform_data(s, premulColor) ELSE s
    IN  beginBlock(s1, ID("kSolidColorShader"))

add_dst_read_sample_uniform_data(s, dstTexture, dstOffset) ==
    LET s1 == add(s, R("default", <<"kClamp", "kClamp">>, dstTexture))
        s2 == VALIDATE_UNIFORMS(s1, ID("kDstReadSample"))
        \* dstTexture->dimensions() dereferences the proxy
        s3 == IF dstTexture = "null" THEN Halt(s2, "ub") ELSE s2
    IN  write(s3, W("write", "SkV4", 1, dstOffset))

DstReadSampleBlock_BeginBlock(s, dstTexture, dstOffset) ==
    LET s1 == IF s.gatherer
              THEN add_dst_read_sample_uniform_data(s, dstTexture, dstOffset)
              ELSE s
    IN  beginBlock(s1, ID("kDstReadSample"))

DstReadFetchBlock_BeginBlock(s) ==
    LET s1 == IF s.gatherer THEN VALIDATE_UNIFORMS(s, ID("kDstReadFetch")) ELSE s
    IN  beginBlock(s1, ID("kDstReadFetch"))

-----------------------------------------------------------------------------
(* Value encodings *)

\* floats that the code only copies are integers in units of 1/OffsetUnit;
\* OffsetUnit is divisible by every numStops-1 of an inline gradient
OffsetUnit == 4 * 3 * 5 * 7

\* the result of 0.0f / 0
NaN == 0 - 1

\* static_cast<int>(SkTileMode)
SkTileModeInt(tm) ==
    CASE tm = "kClamp" -> 0 [] tm = "kRepeat" -> 1 [] tm = "kMirror" -> 2 [] tm = "kDecal" -> 3

BoolInt(b) == IF b THEN 1 ELSE 0

Zeros(n) == [i \in 1..n |-> 0]

-----------------------------------------------------------------------------
(* GradientShaderBlocks *)

GradientTypes == {"kNone", "kLinear", "kRadial", "kSweep", "kConical"}

\* GradientData(type, numStops): the zero-filled form used without stop data
GradientData2(type, numStops) ==
    [fType |-> type,
     fPoints |-> <<0, 0, 0, 0>>, fRadii |-> <<0, 0>>, fBias |-> 0, fScale |-> 0,
     fTM |-> "kClamp", fNumStops |-> numStops,
     fColors |-> Zeros(kNumInternalStorageStops),
     fOffsets |-> Zeros(kNumInternalStorageStops),
     fColorsAndOffsetsProxy |-> "null",
     fInterpolation |-> [fInPremul |-> FALSE, fColorSpace |-> 0]]

\* a : the constructor's arguments.  a.colors holds at least a.numStops entries;
\* a.offsets is <<>> with a.hasOffsets = FALSE for a null offsets pointer.
GradientDataOffsetsMut(a) ==
    LET n == a.numStops
        given(i) == IF a.hasOffsets THEN a.offsets[i]
                    ELSE IF n = 1 THEN NaN ELSE ((i - 1) * OffsetUnit) \div (n - 1)
    IN  [i \in 1..kNumInternalStorageStops |-> IF i <= n THEN given(i) ELSE given(1)]

GradientDataOffsets(a) ==
    LET n == a.numStops
        given(i) == IF a.hasOffsets THEN a.offsets[i]
                    ELSE IF n = 1 THEN NaN ELSE ((i - 1) * OffsetUnit) \div (n - 1)
    IN  [i \in 1..kNumInternalStorageStops |-> IF i <= n THEN given(i) ELSE given(n)]

GradientDataColorsMut(a) ==
    [i \in 1..kNumInternalStorageStops |->
        IF i <= a.numStops THEN a.colors[i] ELSE 0]

GradientDataColors(a) ==
    [i \in 1..kNumInternalStorageStops |->
        IF i <= a.numStops THEN a.colors[i] ELSE a.colors[a.numStops]]

GradientData(a) ==
    LET inline == a.numStops <= kNumInternalStorageStops
    IN  [fType |-> a.type,
         fPoints |-> a.points, fRadii |-> a.radii, fBias |-> a.bias, fScale |-> a.scale,
         fTM |-> a.tm, fNumStops |-> a.numStops,
         \* beyond the inline limit the arrays are left uninitialised and never read
         fColors |-> IF inline THEN GradientDataColors(a) ELSE <<>>,
         fOffsets |-> IF inline THEN GradientDataOffsets(a) ELSE <<>>,
         fColorsAndOffsetsProxy |-> IF inline THEN "null" ELSE a.proxy,
         fInterpolation |-> a.interp]

\* the constructor's SkASSERTs
GradientDataAsserts(a) ==
    /\ a.numStops >= 1
    /\ a.numStops > kNumInternalStorageStops => a.proxy # "null"

add_gradient_preamble_Mut(s, gradData) ==
    IF gradData.fNumStops <= kNumInternalStorageStops
    THEN IF gradData.fNumStops < 4
         THEN write(write(s, W("writeArray", "SkPMColor4f", 4, SubSeq(gradData.fColors, 1, 4))),
                    W("write", "kFloat4", 1, SubSeq(gradData.fOffsets, 1, 4)))
         ELSE write(write(s, W("writeArray", "SkPMColor4f", 8, SubSeq(gradData.fColors, 1, 8))),
                    W("writeArray", "kFloat4", 2, SubSeq(gradData.fOffsets, 1, 8)))
    ELSE s

add_gradient_preamble(s, gradData) ==
    IF gradData.fNumStops <= kNumInternalStorageStops
    THEN IF gradData.fNumStops <= 4
         THEN write(write(s, W("writeArray", "SkPMColor4f", 4, SubSeq(gradData.fColors, 1, 4))),
                    W("write", "kFloat4", 1, SubSeq(gradData.fOffsets, 1, 4)))
         ELSE IF gradData.fNumStops <= 8
         THEN write(write(s, W("writeArray", "SkPMColor4f", 8, SubSeq(gradData.fColors, 1, 8))),
                    W("writeArray", "kFloat4", 2, SubSeq(gradData.fOffsets, 1, 8)))
         ELSE SkUNREACHABLE(s)
    ELSE s

add_gradient_postamble(s, gradData) ==
    LET s1 == IF gradData.fNumStops > kNumInternalStorageStops
              THEN write(s, W("write", "int", 1, <<gradData.fNumStops>>))
              ELSE s
    IN  writeAll(s1, << W("write", "int", 1, <<SkTileModeInt(gradData.fTM)>>),
                        W("write", "int", 1, <<gradData.fInterpolation.fColorSpace>>),
                        W("write", "int", 1, <<BoolInt(gradData.fInterpolation.fInPremul)>>) >>)

Pt(points, i) == SubSeq(points, 2 * i + 1, 2 * i + 2)

add_linear_gradient_uniform_data(s, codeSnippetID, gradData) ==
    LET s1 == add_gradient_preamble(VALIDATE_UNIFORMS(s, codeSnippetID), gradData)
        s2 == writeAll(s1, << W("write", "SkPoint", 1, Pt(gradData.fPoints, 0)),
                              W("write", "SkPoint", 1, Pt(gradData.fPoints, 1)) >>)
    IN  add_gradient_postamble(s2, gradData)

add_radial_gradient_uniform_data(s, codeSnippetID, gradData) ==
    LET s1 == add_gradient_preamble(VALIDATE_UNIFORMS(s, codeSnippetID), gradData)
        s2 == writeAll(s1, << W("write", "SkPoint", 1, Pt(gradData.fPoints, 0)),
                              W("write", "float", 1, <<gradData.fRadii[1]>>) >>)
    IN  add_gradient_postamble(s2, gradData)

add_sweep_gradient_uniform_data(s, codeSnippetID, gradData) ==
    LET s1 == add_gradient_preamble(VALIDATE_UNIFORMS(s, codeSnippetID), gradData)
        s2 == writeAll(s1, << W("write", "SkPoint", 1, Pt(gradData.fPoints, 0)),
                              W("write", "float", 1, <<gradData.fBias>>),
                              W("write", "float", 1, <<gradData.fScale>>) >>)
    IN  add_gradient_postamble(s2, gradData)

add_conical_gradient_uniform_data(s, codeSnippetID, gradData) ==
    LET s1 == add_gradient_preamble(VALIDATE_UNIFORMS(s, codeSnippetID), gradData)
        s2 == writeAll(s1, << W("write", "SkPoint", 1, Pt(gradData.fPoints, 0)),
                              W("write", "SkPoint", 1, Pt(gradData.fPoints, 1)),
                              W("write", "float", 1, <<gradData.fRadii[1]>>),
                              W("write", "float", 1, <<gradData.fRadii[2]>>) >>)
    IN  add_gradient_postamble(s2, gradData)

GradientPrefix(type) ==
    CASE type = "kLinear" -> 0 [] type = "kRadial" -> 1
      [] type = "kSweep" -> 2 [] type = "kConical" -> 3

\* the three snippets of a gradient type, in declaration order 4, 8, Texture
GradientSnippets(type) ==
    LET base == ID("kLinearGradientShader4") + 3 * GradientPrefix(type)
    IN  <<base, base + 1, base + 2>>

GradientCodeSnippetIDMut(type, numStops) ==
    IF type \notin GradientTypes \ {"kNone"} THEN ID("kSolidColorShader")
    ELSE IF numStops < 4 THEN GradientSnippets(type)[1]
    ELSE IF numStops < 8 THEN GradientSnippets(type)[2]
    ELSE GradientSnippets(type)[3]

\* the codeSnippetID that GradientShaderBlocks::BeginBlock selects
GradientCodeSnippetID(type, numStops) ==
    IF type \notin GradientTypes \ {"kNone"} THEN ID("kSolidColorShader")
    ELSE IF numStops <= 4 THEN GradientSnippets(type)[1]
    ELSE IF numStops <= 8 THEN GradientSnippets(type)[2]
    ELSE GradientSnippets(type)[3]

GradientShaderBlocks_BeginBlock(s, gradData) ==
    LET s1 == IF gradData.fNumStops > kNumInternalStorageStops /\ s.gatherer
              THEN add(SkASSERT(s, gradData.fColorsAndOffsetsProxy # "null"),
                       R("kNearest", <<"kClamp", "kClamp">>, gradData.fColorsAndOffsetsProxy))
              ELSE s
        codeSnippetID == GradientCodeSnippetID(gradData.fType, gradData.fNumStops)
        s2 == CASE gradData.fType = "kLinear" ->
                     IF s1.gatherer
                     THEN add_linear_gradient_uniform_data(s1, codeSnippetID, gradData) ELSE s1
                [] gradData.fType = "kRadial" ->
                     IF s1.gatherer
                     THEN add_radial_gradient_uniform_data(s1, codeSnippetID, gradData) ELSE s1
                [] gradData.fType = "kSweep" ->
                     IF s1.gatherer
                     THEN add_sweep_gradient_uniform_data(s1, codeSnippetID, gradData) ELSE s1
                [] gradData.fType = "kConical" ->
                     IF s1.gatherer
                     THEN add_conical_gradient_uniform_data(s1, codeSnippetID, gradData) ELSE s1
                [] OTHER -> SkDEBUGFAIL(s1)
    IN  beginBlock(s2, codeSnippetID)

-----------------------------------------------------------------------------
(* Data pointers.  A data argument is a record; Null is the null pointer. *)

Null == [null |-> TRUE]

IsNull(p) == "null" \in DOMAIN p

AssertDataMatches_Off(s, data) == s

\* SkASSERT(!gatherer == !data)
AssertDataMatches(s, data) == SkASSERT(s, s.gatherer = ~IsNull(data))

-----------------------------------------------------------------------------
(* LocalMatrixShaderBlock *)

\* Local matrices are tokens: 0 is singular, 1 the identity, 2 and 3 are
\* each other's inverse.
Matrices == 0..3

SkM44_Identity == <<1>>

\* SkM44::invert: <<ok, inverse>>
SkM44_invert(m) ==
    CASE m = 0 -> <<FALSE, 0>>
      [] m = 1 -> <<TRUE, 1>>
      [] m = 2 -> <<TRUE, 3>>
      [] m = 3 -> <<TRUE, 2>>

\* a writer that writes whatever invert left behind, without the fallback
add_localmatrixshader_uniform_data_NoFallback(s, localMatrix) ==
    write(VALIDATE_UNIFORMS(s, ID("kLocalMatrixShader")),
          W("write", "SkM44", 1, <<SkM44_invert(localMatrix)[2]>>))

add_localmatrixshader_uniform_data(s, localMatrix) ==
    LET inv == SkM44_invert(localMatrix)
        lmInverse == IF inv[1] THEN <<inv[2]>> ELSE SkM44_Identity
    IN  write(VALIDATE_UNIFORMS(s, ID("kLocalMatrixShader")),
              W("write", "SkM44", 1, lmInverse))

LocalMatrixShaderBlock_BeginBlock(s, lmShaderData) ==
    LET s0 == AssertDataMatches(s, lmShaderData)
        s1 == IF s0.gatherer
              THEN IF IsNull(lmShaderData) THEN Halt(s0, "ub")
                   ELSE add_localmatrixshader_uniform_data(s0, lmShaderData.fLocalMatrix)
              ELSE s0
    IN  beginBlock(s1, ID("kLocalMatrixShader"))

-----------------------------------------------------------------------------
(* Colour-space transform steps *)

kNumXferFnCoeffs == 7

skcms_TFType_Invalid == 0

\* SkColorSpaceXformSteps::Flags::mask()
FlagsMask(flags) ==
    BoolInt(flags.unpremul) + 2 * BoolInt(flags.linearize)
    + 4 * BoolInt(flags.gamut_transform) + 8 * BoolInt(flags.encode)
    + 16 * BoolInt(flags.premul)

\* a default-constructed SkMatrix is the identity
SkMatrix_I == <<1, 0, 0, 0, 1, 0, 0, 0, 1>>

\* a writer that leaves out the steps that are not active
add_color_space_uniforms_ActiveOnly(s, steps) ==
    LET s1 == write(s, W("write", "int", 1, <<FlagsMask(steps.flags)>>))
        s2 == IF steps.flags.linearize
              THEN write(write(s1, W("write", "int", 1, <<steps.srcTF.type>>)),
                         W("writeHalfArray", "float", kNumXferFnCoeffs, steps.srcTF.coeffs))
              ELSE s1
        s3 == IF steps.flags.gamut_transform
              THEN write(s2, W("writeHalf", "SkMatrix", 1, steps.src_to_dst_matrix))
              ELSE s2
    IN  IF steps.flags.encode
        THEN write(write(s3, W("write", "int", 1, <<steps.dstTFInv.type>>)),
                   W("writeHalfArray", "float", kNumXferFnCoeffs, steps.dstTFInv.coeffs))
        ELSE s3

\* a writer that writes what the steps hold, active or not
add_color_space_uniforms_NoPlaceholder(s, steps) ==
    LET s1 == write(s, W("write", "int", 1, <<FlagsMask(steps.flags)>>))
        s2 == write(write(s1, W("write", "int", 1, <<steps.srcTF.type>>)),
                    W("writeHalfArray", "float", kNumXferFnCoeffs, steps.srcTF.coeffs))
        s3 == write(s2, W("writeHalf", "SkMatrix", 1, steps.src_to_dst_matrix))
    IN  write(write(s3, W("write", "int", 1, <<steps.dstTFInv.type>>)),
              W("writeHalfArray", "float", kNumXferFnCoeffs, steps.dstTFInv.coeffs))

add_color_space_uniforms(s, steps) ==
    LET s1 == write(s, W("write", "int", 1, <<FlagsMask(steps.flags)>>))
        s2 == IF steps.flags.linearize
              THEN write(write(s1, W("write", "int", 1, <<steps.srcTF.type>>)),
                         W("writeHalfArray", "float", kNumXferFnCoeffs, steps.srcTF.coeffs))
              ELSE write(write(s1, W("write", "int", 1, <<skcms_TFType_Invalid>>)),
                         W("writeHalfArray", "float", kNumXferFnCoeffs, Zeros(kNumXferFnCoeffs)))
        gamutTransform == IF steps.flags.gamut_transform
                          THEN steps.src_to_dst_matrix ELSE SkMatrix_I
        s3 == write(s2, W("writeHalf", "SkMatrix", 1, gamutTransform))
    IN  IF steps.flags.encode
        THEN write(write(s3, W("write", "int", 1, <<steps.dstTFInv.type>>)),
                   W("writeHalfArray", "float", kNumXferFnCoeffs, steps.dstTFInv.coeffs))
        ELSE write(write(s3, W("write", "int", 1, <<skcms_TFType_Invalid>>)),
                   W("writeHalfArray", "float", kNumXferFnCoeffs, Zeros(kNumXferFnCoeffs)))

-----------------------------------------------------------------------------
(* ImageShaderBlock and YUVImageShaderBlock *)

\* TextureProxy::dimensions()
ProxyDimensions(proxy) == <<16, 16>>

\* SkImageShader::CubicResamplerMatrix(B, C), as a token distinct from SkM44()
CubicResamplerMatrix(cubic) == <<2, cubic[1], cubic[2]>>

SkFilterModeInt(f) == CASE f = "kNearest" -> 0 [] f = "kLinear" -> 1

ReadSwizzleInt(r) == CASE r = "kRGBA" -> 0 [] r = "kRGB1" -> 1 [] r = "kBGRA" -> 5

\* a writer that writes the cubic coefficients only when sampling is cubic
add_image_uniform_data_CubicOnly(s, imgData) ==
    LET s1 == writeAll(VALIDATE_UNIFORMS(s, ID("kImageShader")),
                  << W("write", "SkPoint", 1, ProxyDimensions(imgData.fTextureProxy)),
                     W("write", "SkRect", 1, imgData.fSubset),
                     W("write", "int", 1, <<SkTileModeInt(imgData.fTileModes[1])>>),
                     W("write", "int", 1, <<SkTileModeInt(imgData.fTileModes[2])>>),
                     W("write", "int", 1, <<SkFilterModeInt(imgData.fSampling.filter)>>),
                     W("write", "int", 1, <<BoolInt(imgData.fSampling.useCubic)>>) >>)
        s2 == IF imgData.fSampling.useCubic
              THEN write(s1, W("writeHalf", "SkM44", 1,
                               CubicResamplerMatrix(imgData.fSampling.cubic)))
              ELSE s1
        s3 == write(s2, W("write", "int", 1, <<ReadSwizzleInt(imgData.fReadSwizzle)>>))
    IN  add_color_space_uniforms(s3, imgData.fSteps)

add_image_uniform_data(s, imgData) ==
    LET s1 == writeAll(VALIDATE_UNIFORMS(s, ID("kImageShader")),
                  << W("write", "SkPoint", 1, ProxyDimensions(imgData.fTextureProxy)),
                     W("write", "SkRect", 1, imgData.fSubset),
                     W("write", "int", 1, <<SkTileModeInt(imgData.fTileModes[1])>>),
                     W("write", "int", 1, <<SkTileModeInt(imgData.fTileModes[2])>>),
                     W("write", "int", 1, <<SkFilterModeInt(imgData.fSampling.filter)>>),
                     W("write", "int", 1, <<BoolInt(imgData.fSampling.useCubic)>>),
                     IF imgData.fSampling.useCubic
                     THEN W("writeHalf", "SkM44", 1, CubicResamplerMatrix(imgData.fSampling.cubic))
                     ELSE W("writeHalf", "SkM44", 1, SkM44_Identity),
                     W("write", "int", 1, <<ReadSwizzleInt(imgData.fReadSwizzle)>>) >>)
    IN  add_color_space_uniforms(s1, imgData.fSteps)

SamplingName(sampling) ==
    IF sampling.useCubic THEN "cubic" ELSE sampling.filter

ImageShaderBlock_BeginBlock_Mut(s, imgData) ==
    LET s0 == AssertDataMatches(s, imgData)
        s1 == IF s0.gatherer
              THEN IF IsNull(imgData) THEN Halt(s0, "ub")
                   ELSE add_image_uniform_data(
                            add(s0, R(SamplingName(imgData.fSampling), imgData.fTileModes,
                                      imgData.fTextureProxy)),
                            imgData)
              ELSE s0
    IN  beginBlock(s1, ID("kImageShader"))

ImageShaderBlock_BeginBlock(s, imgData) ==
    LET s0 == AssertDataMatches(s, imgData)
    IN  IF s0.gatherer /\ IsNull(imgData) THEN beginBlock(Halt(s0, "ub"), ID("kImageShader"))
        ELSE IF s0.gatherer /\ imgData.fTextureProxy = "null"
        THEN SolidColorShaderBlock_BeginBlock(s0, kErrorColor)
        ELSE LET s1 == IF s0.gatherer
                       THEN add_image_uniform_data(
                                add(s0, R(SamplingName(imgData.fSampling), imgData.fTileModes,
                                          imgData.fTextureProxy)),
                                imgData)
                       ELSE s0
             IN  beginBlock(s1, ID("kImageShader"))

add_yuv_image_uniform_data(s, imgData) ==
    LET s1 == writeAll(VALIDATE_UNIFORMS(s, ID("kYUVImageShader")),
                  << W("write", "SkSize", 1, imgData.fImgSize),
                     W("write", "SkRect", 1, imgData.fSubset),
                     W("write", "int", 1, <<SkTileModeInt(imgData.fTileModes[1])>>),
                     W("write", "int", 1, <<SkTileModeInt(imgData.fTileModes[2])>>),
                     W("write", "int", 1, <<SkFilterModeInt(imgData.fSampling.filter)>>),
                     W("write", "int", 1, <<BoolInt(imgData.fSampling.useCubic)>>),
                     IF imgData.fSampling.useCubic
                     THEN W("writeHalf", "SkM44", 1, CubicResamplerMatrix(imgData.fSampling.cubic))
                     ELSE W("writeHalf", "SkM44", 1, SkM44_Identity) >>)
        s2 == writeAll(s1, [i \in 1..4 |->
                               W("writeHalf", "SkColor4f", 1, imgData.fChannelSelect[i])])
        s3 == writeAll(s2, << W("writeHalf", "SkMatrix", 1, imgData.fYUVtoRGBMatrix),
                              W("write", "SkPoint3", 1, imgData.fYUVtoRGBTranslate) >>)
    IN  add_color_space_uniforms(s3, imgData.fSteps)

RECURSIVE addAll(_, _)
addAll(s, rs) == IF rs = <<>> THEN s ELSE addAll(add(s, Head(rs)), Tail(rs))

YUVImageShaderBlock_BeginBlock_Mut(s, imgData) ==
    LET s0 == AssertDataMatches(s, imgData)
    IN  IF s0.gatherer /\ IsNull(imgData) THEN beginBlock(Halt(s0, "ub"), ID("kYUVImageShader"))
        ELSE IF s0.gatherer /\ imgData.fTextureProxies[1] = "null"
        THEN SolidColorShaderBlock_BeginBlock(s0, kErrorColor)
        ELSE LET s1 == IF s0.gatherer
                       THEN add_yuv_image_uniform_data(
                                addAll(s0, [i \in 1..4 |->
                                               R(SamplingName(imgData.fSampling),
                                                 imgData.fTileModes,
                                                 imgData.fTextureProxies[i])]),
                                imgData)
                       ELSE s0
             IN  beginBlock(s1, ID("kYUVImageShader"))

YUVImageShaderBlock_BeginBlock(s, imgData) ==
    LET s0 == AssertDataMatches(s, imgData)
    IN  IF s0.gatherer /\ IsNull(imgData) THEN beginBlock(Halt(s0, "ub"), ID("kYUVImageShader"))
        ELSE IF s0.gatherer /\ (\E i \in 1..4 : imgData.fTextureProxies[i] = "null")
        THEN SolidColorShaderBlock_BeginBlock(s0, kErrorColor)
        ELSE LET s1 == IF s0.gatherer
                       THEN add_yuv_image_uniform_data(
                                addAll(s0, [i \in 1..4 |->
                                               R(SamplingName(imgData.fSampling),
                                                 imgData.fTileModes,
                                                 imgData.fTextureProxies[i])]),
                                imgData)
                       ELSE s0
             IN  beginBlock(s1, ID("kYUVImageShader"))

-----------------------------------------------------------------------------
(* CoordClamp, Dither, PerlinNoise *)

add_coordclamp_uniform_data(s, clampData) ==
    write(VALIDATE_UNIFORMS(s, ID("kCoordClampShader")),
          W("write", "SkRect", 1, clampData.fSubset))

CoordClampShaderBlock_BeginBlock(s, clampData) ==
    LET s0 == AssertDataMatches(s, clampData)
        s1 == IF s0.gatherer
              THEN IF IsNull(clampData) THEN Halt(s0, "ub")
                   ELSE add_coordclamp_uniform_data(s0, clampData)
              ELSE s0
    IN  beginBlock(s1, ID("kCoordClampShader"))

add_dither_uniform_data(s, ditherData) ==
    write(VALIDATE_UNIFORMS(s, ID("kDitherShader")),
          W("writeHalf", "float", 1, <<ditherData.fRange>>))

\* proxy : what RecorderPriv::CreateCachedProxy returns for the dither LUT,
\*         "null" when the proxy cannot be created
DitherShaderBlock_BeginBlock_Mut(s, ditherData, proxy) ==
    LET s0 == AssertDataMatches(s, ditherData)
    IN  IF s0.gatherer
        THEN IF IsNull(ditherData) THEN beginBlock(Halt(s0, "ub"), ID("kDitherShader"))
             ELSE beginBlock(
                      add(add_dither_uniform_data(s0, ditherData),
                          R("kNearest", <<"kRepeat", "kRepeat">>, proxy)),
                      ID("kDitherShader"))
        ELSE beginBlock(s0, ID("kDitherShader"))

\* a fallback that closes its substitute block
DitherShaderBlock_BeginBlock_ClosesFallback(s, ditherData, proxy) ==
    LET s0 == AssertDataMatches(s, ditherData)
    IN  IF s0.gatherer
        THEN IF proxy = "null"
             THEN endBlock(PriorOutputBlock_BeginBlock(s0))
             ELSE IF IsNull(ditherData) THEN beginBlock(Halt(s0, "ub"), ID("kDitherShader"))
             ELSE beginBlock(
                      add(add_dither_uniform_data(s0, ditherData),
                          R("kNearest", <<"kRepeat", "kRepeat">>, proxy)),
                      ID("kDitherShader"))
        ELSE beginBlock(s0, ID("kDitherShader"))

DitherShaderBlock_BeginBlock(s, ditherData, proxy) ==
    LET s0 == AssertDataMatches(s, ditherData)
    IN  IF s0.gatherer
        THEN IF proxy = "null"
             THEN PriorOutputBlock_BeginBlock(s0)
             ELSE IF IsNull(ditherData) THEN beginBlock(Halt(s0, "ub"), ID("kDitherShader"))
             ELSE beginBlock(
                      add(add_dither_uniform_data(s0, ditherData),
                          R("kNearest", <<"kRepeat", "kRepeat">>, proxy)),
                      ID("kDitherShader"))
        ELSE beginBlock(s0, ID("kDitherShader"))

add_perlin_noise_uniform_data(s, noiseData) ==
    LET s1 == writeAll(VALIDATE_UNIFORMS(s, ID("kPerlinNoiseShader")),
                  << W("write", "SkPoint", 1, noiseData.fBaseFrequency),
                     W("write", "SkPoint", 1, noiseData.fStitchData),
                     W("write", "int", 1, <<noiseData.fType>>),
                     W("write", "int", 1, <<noiseData.fNumOctaves>>),
                     W("write", "int", 1, <<BoolInt(noiseData.stitching)>>) >>)
    IN  addAll(s1, << R("kNearest", <<"kRepeat", "kClamp">>, noiseData.fPermutationsProxy),
                      R("kNearest", <<"kRepeat", "kClamp">>, noiseData.fNoiseProxy) >>)

PerlinNoiseShaderBlock_BeginBlock(s, noiseData) ==
    LET s0 == AssertDataMatches(s, noiseData)
        s1 == IF s0.gatherer
              THEN IF IsNull(noiseData) THEN Halt(s0, "ub")
                   ELSE add_perlin_noise_uniform_data(s0, noiseData)
              ELSE s0
    IN  beginBlock(s1, ID("kPerlinNoiseShader"))

-----------------------------------------------------------------------------
(* Blend shader, blenders, fixed colours *)

BlendShaderBlock_BeginBlock(s) ==
    LET s1 == IF s.gatherer THEN VALIDATE_UNIFORMS(s, ID("kBlendShader")) ELSE s
    IN  beginBlock(s1, ID("kBlendShader"))

\* SkTo<int>(SkBlendMode)
SkBlendModeInt(mode) ==
    CASE mode = "kClear" -> 0 [] mode = "kSrcOver" -> 3
      [] mode = "kScreen" -> 14 [] mode = "kHue" -> 25

BlendModes == {"kClear", "kSrcOver", "kScreen", "kHue"}

BlendModeBlenderBlock_BeginBlock(s, blendMode) ==
    LET s1 == IF s.gatherer
              THEN write(VALIDATE_UNIFORMS(s, ID("kBlendModeBlender")),
                         W("write", "int", 1, <<SkBlendModeInt(blendMode)>>))
              ELSE s
    IN  beginBlock(s1, ID("kBlendModeBlender"))

CoeffBlenderBlock_BeginBlock(s, coeffs) ==
    LET s1 == IF s.gatherer
              THEN write(SkASSERT(VALIDATE_UNIFORMS(s, ID("kCoeffBlender")), Len(coeffs) = 4),
                         W("write", "kHalf4", 1, coeffs))
              ELSE s
    IN  beginBlock(s1, ID("kCoeffBlender"))

DstColorBlock_BeginBlock(s) ==
    LET s1 == IF s.gatherer THEN VALIDATE_UNIFORMS(s, ID("kDstColor")) ELSE s
    IN  beginBlock(s1, ID("kDstColor"))

PrimitiveColorBlock_BeginBlock(s) ==
    LET s1 == IF s.gatherer THEN VALIDATE_UNIFORMS(s, ID("kPrimitiveColor")) ELSE s
    IN  beginBlock(s1, ID("kPrimitiveColor"))

ColorFilterShaderBlock_BeginBlock(s) == beginBlock(s, ID("kColorFilterShader"))

-----------------------------------------------------------------------------
(* Colour-filter writers *)

add_matrix_colorfilter_uniform_data(s, data) ==
    writeAll(VALIDATE_UNIFORMS(s, ID("kMatrixColorFilter")),
        << W("write", "SkM44", 1, <<data.fMatrix>>),
           W("write", "SkV4", 1, <<data.fTranslate>>),
           W("write", "int", 1, <<BoolInt(data.fInHSLA)>>) >>)

MatrixColorFilterBlock_BeginBlock(s, matrixCFData) ==
    LET s0 == AssertDataMatches(s, matrixCFData)
        s1 == IF s0.gatherer
              THEN IF IsNull(matrixCFData) THEN Halt(s0, "ub")
                   ELSE add_matrix_colorfilter_uniform_data(s0, matrixCFData)
              ELSE s0
    IN  beginBlock(s1, ID("kMatrixColorFilter"))

ComposeColorFilterBlock_BeginBlock(s) == beginBlock(s, ID("kComposeColorFilter"))

GaussianColorFilterBlock_BeginBlock(s) == beginBlock(s, ID("kGaussianColorFilter"))

add_table_colorfilter_uniform_data(s, data) ==
    add(VALIDATE_UNIFORMS(s, ID("kTableColorFilter")),
        R("default", <<"kClamp", "kClamp">>, data.fTextureProxy))

TableColorFilterBlock_BeginBlock_Mut(s, data) ==
    LET s1 == IF s.gatherer THEN add_table_colorfilter_uniform_data(s, data) ELSE s
    IN  beginBlock(s1, ID("kTableColorFilter"))

\* a fallback test that does not ask for the gatherer
TableColorFilterBlock_BeginBlock_Unguarded(s, data) ==
    IF data.fTextureProxy = "null"
    THEN PriorOutputBlock_BeginBlock(s)
    ELSE LET s1 == IF s.gatherer THEN add_table_colorfilter_uniform_data(s, data) ELSE s
         IN  beginBlock(s1, ID("kTableColorFilter"))

TableColorFilterBlock_BeginBlock(s, data) ==
    IF s.gatherer /\ data.fTextureProxy = "null"
    THEN PriorOutputBlock_BeginBlock(s)
    ELSE LET s1 == IF s.gatherer THEN add_table_colorfilter_uniform_data(s, data) ELSE s
         IN  beginBlock(s1, ID("kTableColorFilter"))

add_color_space_xform_uniform_data(s, data) ==
    IF IsNull(data) THEN Halt(s, "ub")
    ELSE add_color_space_uniforms(
             VALIDATE_UNIFORMS(s, ID("kColorSpaceXformColorFilter")), data.fSteps)

ColorSpaceTransformBlock_BeginBlock(s, data) ==
    LET s1 == IF s.gatherer THEN add_color_space_xform_uniform_data(s, data) ELSE s
    IN  beginBlock(s1, ID("kColorSpaceXformColorFilter"))

-----------------------------------------------------------------------------
(* Colour spaces: "null" (no colour space), "srgb", "srgbLinear", "p3" *)

ColorSpaces == {"null", "srgb", "srgbLinear", "p3"}

AlphaTypes == {"kOpaque", "kPremul", "kUnpremul"}

GammaIsLinear(cs) == cs = "srgbLinear"

Gamut(cs) == IF cs = "p3" THEN "p3" ELSE "srgb"

\* SkColorSpace::transferFn / invTransferFn: type sRGBish and seven coefficients
TransferFn(cs) ==
    IF GammaIsLinear(cs) THEN [type |-> 1, coeffs |-> <<1, 1, 0, 0, 0, 0, 0>>]
    ELSE [type |-> 1, coeffs |-> <<24, 9, 1, 7, 4, 0, 0>>]

InvTransferFn(cs) ==
    IF GammaIsLinear(cs) THEN [type |-> 1, coeffs |-> <<1, 1, 0, 0, 0, 0, 0>>]
    ELSE [type |-> 1, coeffs |-> <<4, 11, 0, 13, 3, 0, 0>>]

GamutMatrix(src, dst) ==
    IF Gamut(src) = Gamut(dst) THEN SkMatrix_I
    ELSE IF Gamut(src) = "srgb" THEN <<8, 2, 0, 0, 9, 0, 0, 1, 9>>
    ELSE <<12, -2, 0, 0, 10, 0, 0, -1, 11>>

\* SkColorSpaceXformSteps(src, srcAT, dst, dstAT)
SkColorSpaceXformSteps(src, srcAT, dst, dstAT) ==
    LET dAT == IF dstAT = "kOpaque" THEN srcAT ELSE dstAT
        sCS == IF src = "null" THEN "srgb" ELSE src
        dCS == IF dst = "null" THEN sCS ELSE dst
        none == [unpremul |-> FALSE, linearize |-> FALSE, gamut_transform |-> FALSE,
                 encode |-> FALSE, premul |-> FALSE]
        f0 == [unpremul |-> srcAT = "kPremul",
               linearize |-> ~GammaIsLinear(sCS),
               gamut_transform |-> Gamut(sCS) # Gamut(dCS),
               encode |-> ~GammaIsLinear(dCS),
               premul |-> srcAT # "kOpaque" /\ dAT = "kPremul"]
        \* linearize then re-encode with the same transfer function: skip both
        f1 == IF f0.linearize /\ ~f0.gamut_transform /\ f0.encode
                 /\ TransferFn(sCS) = TransferFn(dCS)
              THEN [f0 EXCEPT !.linearize = FALSE, !.encode = FALSE] ELSE f0
        \* unpremul then premul with nothing non-linear in between: skip both
        f2 == IF f1.unpremul /\ ~f1.linearize /\ ~f1.encode /\ f1.premul
              THEN [f1 EXCEPT !.unpremul = FALSE, !.premul = FALSE] ELSE f1
    IN  [flags |-> IF sCS = dCS /\ srcAT = dAT THEN none ELSE f2,
         srcTF |-> TransferFn(sCS),
         src_to_dst_matrix |-> GamutMatrix(sCS, dCS),
         dstTFInv |-> InvTransferFn(dCS)]

ColorSpaceTransformData(src, srcAT, dst, dstAT) ==
    [fSteps |-> SkColorSpaceXformSteps(src, srcAT, dst, dstAT)]

\* map_color: an unpremultiplied sRGB colour <<r, g, b, a>> (a in {0, 1}) to a
\* premultiplied colour of dst
map_color(c, src, dst) ==
    LET g == IF dst # "null" /\ Gamut(src) # Gamut(dst)
             THEN <<c[2], c[1], c[3], c[4]>> ELSE c
    IN  <<g[1] * g[4], g[2] * g[4], g[3] * g[4], g[4]>>

-----------------------------------------------------------------------------
(* Runtime effects and the shader-code dictionary *)

\* SkRuntimeEffect objects: declared uniforms (type, word offset, word count,
\* colour flag) and declared children
RuntimeEffects ==
    [rtA |-> [uniforms |-> << [type |-> "float", offset |-> 0, size |-> 1, color |-> FALSE],
                              [type |-> "half4", offset |-> 1, size |-> 4, color |-> TRUE] >>,
              children |-> <<>>],
     rtB |-> [uniforms |-> << [type |-> "float2", offset |-> 0, size |-> 2, color |-> FALSE] >>,
              children |-> <<"colorFilter">>]]

InDict(d, e) == \E i \in 1..Len(d) : d[i] = e

\* a dictionary that adds an entry at every request
DictAfterIntern_AlwaysAppend(d, e) == Append(d, e)

\* ShaderCodeDictionary::findOrCreateRuntimeEffectSnippet: the dictionary after the call
DictAfterIntern(d, e) == IF InDict(d, e) THEN d ELSE Append(d, e)

\* ... and the snippet id it returns
findOrCreateRuntimeEffectSnippet(d, e) ==
    LET d1 == DictAfterIntern(d, e)
    IN  kBuiltInCodeSnippetIDCount + (CHOOSE i \in 1..Len(d1) : d1[i] = e)

\* SkRuntimeEffectPriv::TransformUniforms: colour uniforms are converted to dstCS
TransformUniforms(uniformDecls, data, dstCS) ==
    IF dstCS = "null" \/ Gamut(dstCS) = "srgb" THEN data
    ELSE [w \in 1..Len(data) |->
            IF \E u \in 1..Len(uniformDecls) :
                   /\ uniformDecls[u].color
                   /\ w > uniformDecls[u].offset
                   /\ w <= uniformDecls[u].offset + uniformDecls[u].size
            THEN data[w] + 100 ELSE data[w]]

\* a gatherer loop that reads every uniform from the start of the data
gather_runtime_effect_uniforms_FromBase(s, rtsUniforms, uniformData) ==
    IF IsNull(uniformData) THEN Halt(s, "ub")
    ELSE writeAll(s, [index \in 1..Len(rtsUniforms) |->
                        W("write", rtsUniforms[index].type, 1,
                          SubSeq(uniformData.bytes, 1, rtsUniforms[index].size))])

gather_runtime_effect_uniforms(s, rtsUniforms, uniformData) ==
    IF IsNull(uniformData) THEN Halt(s, "ub")
    ELSE writeAll(s, [index \in 1..Len(rtsUniforms) |->
                        W("write", rtsUniforms[index].type, 1,
                          SubSeq(uniformData.bytes,
                                 rtsUniforms[index].offset + 1,
                                 rtsUniforms[index].offset + rtsUniforms[index].size))])

\* a writer that gathers the uniforms of an effect only when it interns it
RuntimeEffectBlock_BeginBlock_SkipKnown(s, shaderData) ==
    IF s.status # "ok" THEN s
    ELSE
    LET codeSnippetID == findOrCreateRuntimeEffectSnippet(s.dict, shaderData.fEffect)
        s1 == [s EXCEPT !.dict = DictAfterIntern(s.dict, shaderData.fEffect),
                        !.rtEffectDict = @ \cup {<<codeSnippetID, shaderData.fEffect>>}]
        s2 == IF s1.gatherer /\ ~InDict(s.dict, shaderData.fEffect)
              THEN gather_runtime_effect_uniforms(
                       VALIDATE_UNIFORMS(s1, codeSnippetID),
                       RuntimeEffects[shaderData.fEffect].uniforms,
                       shaderData.fUniforms)
              ELSE s1
    IN  beginBlock(s2, codeSnippetID)

RuntimeEffectBlock_BeginBlock_WriteAfter(s, shaderData) ==
    IF s.status # "ok" THEN s
    ELSE
    LET codeSnippetID == findOrCreateRuntimeEffectSnippet(s.dict, shaderData.fEffect)
        s1 == [s EXCEPT !.dict = DictAfterIntern(s.dict, shaderData.fEffect),
                        !.rtEffectDict = @ \cup {<<codeSnippetID, shaderData.fEffect>>}]
        s2 == beginBlock(s1, codeSnippetID)
    IN  IF s2.gatherer
        THEN gather_runtime_effect_uniforms(
                 VALIDATE_UNIFORMS(s2, codeSnippetID),
                 RuntimeEffects[shaderData.fEffect].uniforms,
                 shaderData.fUniforms)
        ELSE s2

RuntimeEffectBlock_BeginBlock(s, shaderData) ==
    IF s.status # "ok" THEN s
    ELSE
    LET codeSnippetID == findOrCreateRuntimeEffectSnippet(s.dict, shaderData.fEffect)
        s1 == [s EXCEPT !.dict = DictAfterIntern(s.dict, shaderData.fEffect),
                        !.rtEffectDict = @ \cup {<<codeSnippetID, shaderData.fEffect>>}]
        s2 == IF s1.gatherer
              THEN gather_runtime_effect_uniforms(
                       VALIDATE_UNIFORMS(s1, codeSnippetID),
                       RuntimeEffects[shaderData.fEffect].uniforms,
                       shaderData.fUniforms)
              ELSE s1
    IN  beginBlock(s2, codeSnippetID)

-----------------------------------------------------------------------------
(* Effect trees *)

NullEffect == [type |-> "null"]

\* skgpu::GetPorterDuffBlendConstants: empty for a mode without coefficients
GetPorterDuffBlendConstants(mode) ==
    CASE mode = "kClear" -> <<0, 0, 0, 0>>
      [] mode = "kSrcOver" -> <<1, 0, 1, -1>>
      [] OTHER -> <<>>

\* SkWorkingFormatColorFilter::workingFormat(dstCS, &workingAT)
workingFormat(filter, dstCS) ==
    [cs |-> IF filter.useDstCS THEN dstCS ELSE filter.cs,
     at |-> IF filter.useDstAT THEN "kPremul" ELSE filter.at]

-----------------------------------------------------------------------------
(* Convenience blocks and the AddToKey dispatchers *)

RECURSIVE AddToKey_Blender(_, _)
RECURSIVE AddToKey_ColorFilter(_, _)
RECURSIVE AddChildrenToKey(_, _, _)

\* SkRuntimeEffectPriv::AddChildrenToKey: each child through the dispatcher of
\* its declared kind, in declaration order
AddChildrenToKey(s, children, childInfo) ==
    IF children = <<>> THEN s
    ELSE LET s1 == IF Head(childInfo) = "blender"
                   THEN AddToKey_Blender(s, Head(children))
                   ELSE AddToKey_ColorFilter(s, Head(children))
         IN  AddChildrenToKey(s1, Tail(children), Tail(childInfo))

\* a conversion that emits the mode block after the coefficient block as well
add_to_key_BlendModeBlender_Both(s, blender) ==
    LET coeffs == GetPorterDuffBlendConstants(blender.mode)
        s1 == IF coeffs # <<>>
              THEN endBlock(CoeffBlenderBlock_BeginBlock(s, coeffs))
              ELSE s
    IN  endBlock(BlendModeBlenderBlock_BeginBlock(s1, blender.mode))

add_to_key_BlendModeBlender(s, blender) ==
    LET coeffs == GetPorterDuffBlendConstants(blender.mode)
    IN  IF coeffs # <<>>
        THEN endBlock(CoeffBlenderBlock_BeginBlock(s, coeffs))
        ELSE endBlock(BlendModeBlenderBlock_BeginBlock(s, blender.mode))

add_to_key_RuntimeBlender(s, blender) ==
    LET transformed == [bytes |-> TransformUniforms(RuntimeEffects[blender.effect].uniforms,
                                                 blender.uniforms, s.ctx.colorSpace)]
        s1 == RuntimeEffectBlock_BeginBlock(
                  s, [fEffect |-> blender.effect, fUniforms |-> transformed])
        s2 == AddChildrenToKey(s1, blender.children,
                               RuntimeEffects[blender.effect].children)
    IN  endBlock(s2)

\* a dispatch that takes a null blender for the default blend mode
AddToKey_Blender_NullAsSrcOver(s, blender) ==
    IF blender.type = "null"
    THEN add_to_key_BlendModeBlender(s, [type |-> "BlendMode", mode |-> "kSrcOver"])
    ELSE CASE blender.type = "BlendMode" -> add_to_key_BlendModeBlender(s, blender)
           [] blender.type = "Runtime" -> add_to_key_RuntimeBlender(s, blender)
           [] OTHER -> SkUNREACHABLE(s)

AddToKey_Blender(s, blender) ==
    IF blender.type = "null" THEN s
    ELSE CASE blender.type = "BlendMode" -> add_to_key_BlendModeBlender(s, blender)
           [] blender.type = "Runtime" -> add_to_key_RuntimeBlender(s, blender)
           [] OTHER -> SkUNREACHABLE(s)

AddDstBlendBlock(s, blender) ==
    LET s1 == BlendShaderBlock_BeginBlock(s)
        s2 == endBlock(PriorOutputBlock_BeginBlock(s1))
        s3 == endBlock(DstColorBlock_BeginBlock(s2))
        s4 == AddToKey_Blender(s3, blender)
    IN  endBlock(s4)

AddPrimitiveBlendBlock(s, blender) ==
    LET s1 == BlendShaderBlock_BeginBlock(s)
        s2 == endBlock(PriorOutputBlock_BeginBlock(s1))
        s3 == endBlock(PrimitiveColorBlock_BeginBlock(s2))
        s4 == AddToKey_Blender(s3, blender)
    IN  endBlock(s4)

\* a colour blend that puts the prior output ahead of the solid colour
AddColorBlendBlock_PriorFirst(s, bm, srcColor) ==
    LET s1 == BlendShaderBlock_BeginBlock(s)
        s2 == endBlock(PriorOutputBlock_BeginBlock(s1))
        s3 == endBlock(SolidColorShaderBlock_BeginBlock(s2, srcColor))
        s4 == endBlock(BlendModeBlenderBlock_BeginBlock(s3, bm))
    IN  endBlock(s4)

AddColorBlendBlock(s, bm, srcColor) ==
    LET s1 == BlendShaderBlock_BeginBlock(s)
        s2 == endBlock(SolidColorShaderBlock_BeginBlock(s1, srcColor))
        s3 == endBlock(PriorOutputBlock_BeginBlock(s2))
        s4 == endBlock(BlendModeBlenderBlock_BeginBlock(s3, bm))
    IN  endBlock(s4)

add_to_key_BlendModeColorFilter(s, filter) ==
    AddColorBlendBlock(s, filter.mode, map_color(filter.color, "srgb", s.ctx.colorSpace))

add_to_key_ColorSpaceXformColorFilter(s, filter) ==
    LET data == ColorSpaceTransformData(filter.src, "kPremul", filter.src, "kPremul")
    IN  endBlock(ColorSpaceTransformBlock_BeginBlock(s, data))

add_to_key_ComposeColorFilter_Unwrapped(s, filter) ==
    AddToKey_ColorFilter(AddToKey_ColorFilter(s, filter.inner), filter.outer)

add_to_key_ComposeColorFilter(s, filter) ==
    LET s1 == ComposeColorFilterBlock_BeginBlock(s)
        s2 == AddToKey_ColorFilter(s1, filter.inner)
        s3 == AddToKey_ColorFilter(s2, filter.outer)
    IN  endBlock(s3)

add_to_key_GaussianColorFilter(s, filter) ==
    endBlock(GaussianColorFilterBlock_BeginBlock(s))

add_to_key_MatrixColorFilter(s, filter) ==
    LET matrixCFData == [fMatrix |-> filter.matrix, fTranslate |-> filter.translate,
                         fInHSLA |-> filter.domain = "kHSLA"]
    IN  endBlock(MatrixColorFilterBlock_BeginBlock(s, matrixCFData))

add_to_key_RuntimeColorFilter(s, filter) ==
    LET transformed == [bytes |-> TransformUniforms(RuntimeEffects[filter.effect].uniforms,
                                                 filter.uniforms, s.ctx.colorSpace)]
        s1 == RuntimeEffectBlock_BeginBlock(
                  s, [fEffect |-> filter.effect, fUniforms |-> transformed])
        s2 == AddChildrenToKey(s1, filter.children,
                               RuntimeEffects[filter.effect].children)
    IN  endBlock(s2)

\* filter.proxy : what RecorderPriv::CreateCachedProxy returns for filter->bitmap(),
\*                "null" when the proxy cannot be created
add_to_key_TableColorFilter_Mut(s, filter) ==
    endBlock(TableColorFilterBlock_BeginBlock_Mut(s, [fTextureProxy |-> filter.proxy]))

\* a fallback that leaves its substitute block open
add_to_key_TableColorFilter_NoEnd(s, filter) ==
    IF filter.proxy = "null"
    THEN PriorOutputBlock_BeginBlock(s)
    ELSE endBlock(TableColorFilterBlock_BeginBlock(s, [fTextureProxy |-> filter.proxy]))

add_to_key_TableColorFilter(s, filter) ==
    IF filter.proxy = "null"
    THEN endBlock(PriorOutputBlock_BeginBlock(s))
    ELSE endBlock(TableColorFilterBlock_BeginBlock(s, [fTextureProxy |-> filter.proxy]))

\* a writer that puts all three parts under one compose block
add_to_key_WorkingFormatColorFilter_Flat(s, filter) ==
    LET dstAT == s.ctx.alphaType
        dstCS == IF s.ctx.colorSpace = "null" THEN "srgb" ELSE s.ctx.colorSpace
        working == workingFormat(filter, dstCS)
        s1 == ComposeColorFilterBlock_BeginBlock(s)
        data1 == ColorSpaceTransformData(dstCS, dstAT, working.cs, working.at)
        s3 == endBlock(ColorSpaceTransformBlock_BeginBlock(s1, data1))
        s4 == AddToKey_ColorFilter(s3, filter.child)
        data2 == ColorSpaceTransformData(working.cs, working.at, dstCS, dstAT)
        s6 == endBlock(ColorSpaceTransformBlock_BeginBlock(s4, data2))
    IN  endBlock(s6)

\* a writer that transforms back with the steps it transformed forth with
add_to_key_WorkingFormatColorFilter_SameSteps(s, filter) ==
    LET dstAT == s.ctx.alphaType
        dstCS == IF s.ctx.colorSpace = "null" THEN "srgb" ELSE s.ctx.colorSpace
        working == workingFormat(filter, dstCS)
        s1 == ComposeColorFilterBlock_BeginBlock(s)
        s2 == ComposeColorFilterBlock_BeginBlock(s1)
        data1 == ColorSpaceTransformData(dstCS, dstAT, working.cs, working.at)
        s3 == endBlock(ColorSpaceTransformBlock_BeginBlock(s2, data1))
        s4 == AddToKey_ColorFilter(s3, filter.child)
        s5 == endBlock(s4)
        s6 == endBlock(ColorSpaceTransformBlock_BeginBlock(s5, data1))
    IN  endBlock(s6)

add_to_key_WorkingFormatColorFilter(s, filter) ==
    LET dstAT == s.ctx.alphaType
        dstCS == IF s.ctx.colorSpace = "null" THEN "srgb" ELSE s.ctx.colorSpace
        working == workingFormat(filter, dstCS)
        s1 == ComposeColorFilterBlock_BeginBlock(s)
        s2 == ComposeColorFilterBlock_BeginBlock(s1)
        data1 == ColorSpaceTransformData(dstCS, dstAT, working.cs, working.at)
        s3 == endBlock(ColorSpaceTransformBlock_BeginBlock(s2, data1))
        s4 == AddToKey_ColorFilter(s3, filter.child)
        s5 == endBlock(s4)
        data2 == ColorSpaceTransformData(working.cs, working.at, dstCS, dstAT)
        s6 == endBlock(ColorSpaceTransformBlock_BeginBlock(s5, data2))
    IN  endBlock(s6)

AddToKey_ColorFilter(s, filter) ==
    IF filter.type = "null" THEN s
    ELSE CASE filter.type = "Noop" -> endBlock(PriorOutputBlock_BeginBlock(s))
           [] filter.type = "BlendMode" -> add_to_key_BlendModeColorFilter(s, filter)
           [] filter.type = "ColorSpaceXform" -> add_to_key_ColorSpaceXformColorFilter(s, filter)
           [] filter.type = "Compose" -> add_to_key_ComposeColorFilter(s, filter)
           [] filter.type = "Gaussian" -> add_to_key_GaussianColorFilter(s, filter)
           [] filter.type = "Matrix" -> add_to_key_MatrixColorFilter(s, filter)
           [] filter.type = "Runtime" -> add_to_key_RuntimeColorFilter(s, filter)
           [] filter.type = "Table" -> add_to_key_TableColorFilter(s, filter)
           [] filter.type = "WorkingFormat" -> add_to_key_WorkingFormatColorFilter(s, filter)
           [] OTHER -> SkUNREACHABLE(s)

-----------------------------------------------------------------------------
(* Inputs *)

Colors == { <<0, 0, 0, 1>>, <<1, 0, 0, 1>> }

StopColor(p, i) == 1 + ((p * i) % 3)

\* arguments of the GradientData constructor: pattern p of caller colours,
\* explicit offsets or a null offsets pointer, and the stops proxy
GradientArgs(type, n, p, hasOffsets, proxy) ==
    [ctor |-> "full", type |-> type, numStops |-> n,
     colors |-> [i \in 1..n |-> StopColor(p, i)],
     hasOffsets |-> hasOffsets,
     offsets |-> IF hasOffsets THEN [i \in 1..n |-> 7 * i * p] ELSE <<>>,
     proxy |-> proxy,
     points |-> <<1, 2, 3, 4>>, radii |-> <<5, 6>>, bias |-> 7, scale |-> 8,
     tm |-> "kRepeat", interp |-> [fInPremul |-> TRUE, fColorSpace |-> 2]]

GradientArgs2(type, n) == [ctor |-> "short", type |-> type, numStops |-> n]

\* every type and stop count with the stops proxy present; beyond the inline
\* limit also without it; and the short constructor (no stop data, no proxy)
WriterGradientArgs ==
    {GradientArgs(type, n, 1, FALSE, "stops") : type \in GradientTypes, n \in 1..MaxStops}
    \cup {GradientArgs(type, n, 1, FALSE, "null") :
            type \in GradientTypes, n \in (kNumInternalStorageStops + 1)..MaxStops}
    \cup {GradientArgs2("kLinear", n) : n \in 1..MaxStops}

ConstructorGradientArgs ==
    {GradientArgs("kLinear", n, p, hasOffsets, proxy) :
        n \in 1..MaxStops, p \in 1..MaxColor, hasOffsets \in BOOLEAN,
        proxy \in {"null", "stops"}}

\* a default-constructed SkColorSpaceXformSteps: no flags, nothing else set
DefaultSteps ==
    [flags |-> [unpremul |-> FALSE, linearize |-> FALSE, gamut_transform |-> FALSE,
                encode |-> FALSE, premul |-> FALSE],
     srcTF |-> [type |-> 0, coeffs |-> Zeros(kNumXferFnCoeffs)],
     src_to_dst_matrix |-> Zeros(9),
     dstTFInv |-> [type |-> 0, coeffs |-> Zeros(kNumXferFnCoeffs)]]

\* steps with the given flags set by hand; their data is there either way
StepsWithFlags(linearize, gamut_transform, encode) ==
    [flags |-> [unpremul |-> FALSE, linearize |-> linearize,
                gamut_transform |-> gamut_transform, encode |-> encode, premul |-> FALSE],
     srcTF |-> TransferFn("srgb"),
     src_to_dst_matrix |-> GamutMatrix("srgb", "p3"),
     dstTFInv |-> InvTransferFn("p3")]

StepsInputs == {DefaultSteps, SkColorSpaceXformSteps("srgb", "kPremul", "p3", "kPremul")}

AllFlagsStepsInputs ==
    {StepsWithFlags(l, g, e) : l \in BOOLEAN, g \in BOOLEAN, e \in BOOLEAN}

Samplings ==
    { [filter |-> "kLinear", useCubic |-> FALSE, cubic |-> <<0, 0>>],
      [filter |-> "kNearest", useCubic |-> TRUE, cubic |-> <<1, 3>>] }

ImageDataInputs ==
    { [fSampling |-> sm, fTileModes |-> <<"kClamp", "kMirror">>, fSubset |-> <<0, 0, 16, 16>>,
       fReadSwizzle |-> "kRGBA", fTextureProxy |-> proxy, fSteps |-> steps] :
        sm \in Samplings, proxy \in {"null", "img"}, steps \in StepsInputs }
    \cup
    { [fSampling |-> [filter |-> "kLinear", useCubic |-> FALSE, cubic |-> <<0, 0>>],
       fTileModes |-> <<"kClamp", "kMirror">>, fSubset |-> <<0, 0, 16, 16>>,
       fReadSwizzle |-> "kRGBA", fTextureProxy |-> "img", fSteps |-> steps] :
        steps \in AllFlagsStepsInputs }

PlaneNames == <<"Y", "U", "V", "A">>

YUVImageDataInputs_All ==
    { [fSampling |-> sm, fTileModes |-> <<"kClamp", "kMirror">>, fSubset |-> <<0, 0, 16, 16>>,
       fImgSize |-> <<16, 16>>,
       fTextureProxies |-> [i \in 1..4 |-> IF i \in present THEN PlaneNames[i] ELSE "null"],
       fChannelSelect |-> << <<1, 0, 0, 0>>, <<0, 1, 0, 0>>, <<0, 0, 1, 0>>, <<0, 0, 0, 1>> >>,
       fYUVtoRGBMatrix |-> <<1, 0, 1, 1, 0, 0, 1, 2, 0>>,
       fYUVtoRGBTranslate |-> <<0, 0, 0>>,
       fSteps |-> DefaultSteps] :
        sm \in Samplings, present \in SUBSET (1..4) }

\* every set of missing planes; cubic sampling with all planes or none
YUVImageDataInputs ==
    { d \in YUVImageDataInputs_All :
        d.fSampling.useCubic =>
            \/ \A i \in 1..4 : d.fTextureProxies[i] # "null"
            \/ \A i \in 1..4 : d.fTextureProxies[i] = "null" }

LMShaderDataInputs == { [fLocalMatrix |-> m] : m \in Matrices }

CoordClampDataInputs == { [fSubset |-> <<0, 0, 8, 8>>] }

DitherDataInputs == { [fRange |-> 1] }

PerlinNoiseDataInputs ==
    { [fBaseFrequency |-> <<1, 1>>, fStitchData |-> <<0, 0>>, fType |-> 0,
       fNumOctaves |-> 2, stitching |-> FALSE,
       fPermutationsProxy |-> "permutations", fNoiseProxy |-> "noise"] }

MatrixColorFilterDataInputs ==
    { [fMatrix |-> 2, fTranslate |-> 0, fInHSLA |-> hsla] : hsla \in BOOLEAN }

TableColorFilterDataInputs == { [fTextureProxy |-> proxy] : proxy \in {"null", "table"} }

ColorSpaceTransformDataInputs ==
    { ColorSpaceTransformData(src, "kPremul", dst, "kPremul") :
        src \in {"srgb"}, dst \in {"srgb", "srgbLinear", "p3"} }

ShaderDataInputs ==
    { [fEffect |-> "rtA", fUniforms |-> [bytes |-> <<1, 2, 3, 4, 5>>]],
      [fEffect |-> "rtB", fUniforms |-> [bytes |-> <<6, 7>>]] }

\* colour filters
Noop == [type |-> "Noop"]
BlendModeCF(mode, color) == [type |-> "BlendMode", mode |-> mode, color |-> color]
ColorSpaceXformCF(src, dst) == [type |-> "ColorSpaceXform", src |-> src, dst |-> dst]
ComposeCF(inner, outer) == [type |-> "Compose", inner |-> inner, outer |-> outer]
GaussianCF == [type |-> "Gaussian"]
MatrixCF(domain) ==
    [type |-> "Matrix", matrix |-> 2, translate |-> 0, domain |-> domain]
RuntimeCF(e, bytes, children) ==
    [type |-> "Runtime", effect |-> e, uniforms |-> bytes, children |-> children]
TableCF(proxy) == [type |-> "Table", proxy |-> proxy]
WorkingFormatCF(child) ==
    [type |-> "WorkingFormat", child |-> child, useDstCS |-> FALSE, cs |-> "srgbLinear",
     useDstAT |-> FALSE, at |-> "kUnpremul"]

LeafFilters ==
    { Noop, BlendModeCF("kHue", <<1, 0, 0, 1>>), ColorSpaceXformCF("srgb", "p3"),
      GaussianCF, MatrixCF("kRGBA"), RuntimeCF("rtA", <<1, 2, 3, 4, 5>>, <<>>),
      TableCF("table"), TableCF("null") }

ChildFilters == { NullEffect, Noop, MatrixCF("kHSLA"), TableCF("null") }

ColorFilters ==
    LeafFilters
    \cup { ComposeCF(a, b) : a \in ChildFilters, b \in ChildFilters }
    \cup { WorkingFormatCF(c) : c \in ChildFilters }
    \cup { RuntimeCF("rtB", <<6, 7>>, <<c>>) : c \in ChildFilters \ {NullEffect} }
    \cup { ComposeCF(WorkingFormatCF(TableCF("null")), ComposeCF(NullEffect, TableCF("table"))),
           WorkingFormatCF(ComposeCF(RuntimeCF("rtA", <<1, 2, 3, 4, 5>>, <<>>),
                                     RuntimeCF("rtB", <<6, 7>>, <<Noop>>))) }

\* blenders
BlendModeBlender(mode) == [type |-> "BlendMode", mode |-> mode]
RuntimeBlender(e, bytes, children) ==
    [type |-> "Runtime", effect |-> e, uniforms |-> bytes, children |-> children]

Blenders ==
    { NullEffect } \cup { BlendModeBlender(m) : m \in BlendModes }
    \cup { RuntimeBlender("rtA", <<1, 2, 3, 4, 5>>, <<>>),
           RuntimeBlender("rtB", <<6, 7>>, <<TableCF("null")>>) }

\* what the client holds: a blender, a colour filter, or the arguments of
\* AddColorBlendBlock
Effects ==
    { [kind |-> "blender", e |-> b] : b \in Blenders }
    \cup { [kind |-> "colorFilter", e |-> f] : f \in ColorFilters \cup {NullEffect} }
    \cup { [kind |-> "colorBlend", e |-> [type |-> "args", bm |-> bm, srcColor |-> c]] :
            bm \in {"kSrcOver", "kScreen"}, c \in Colors }

KeyContexts ==
    { [colorSpace |-> "null", alphaType |-> "kPremul"],
      [colorSpace |-> "p3", alphaType |-> "kPremul"] }

-----------------------------------------------------------------------------
(* The state as the record the operators work on, and back *)

S ==
    [debug |-> debugBuild, gatherer |-> gatherer, ctx |-> keyContext,
     key |-> key, stack |-> stack, uniforms |-> uniforms, resources |-> resources,
     log |-> <<>>, dict |-> dict, rtEffectDict |-> rtEffectDict, status |-> status]

Snapshot ==
    [key |-> key, stack |-> stack, uniforms |-> uniforms, resources |-> resources,
     dict |-> dict]

EmptySnapshot ==
    [key |-> <<>>, stack |-> <<>>, uniforms |-> <<>>, resources |-> <<>>, dict |-> <<>>]

Commit(s1, name, arg, count) ==
    /\ key' = s1.key
    /\ stack' = s1.stack
    /\ uniforms' = s1.uniforms
    /\ resources' = s1.resources
    /\ log' = s1.log
    /\ dict' = s1.dict
    /\ rtEffectDict' = s1.rtEffectDict
    /\ status' = s1.status
    /\ pre' = Snapshot
    /\ lastOp' = [name |-> name, arg |-> arg]
    /\ ops' = ops + count
    /\ UNCHANGED <<debugBuild, gatherer, keyContext, effect, gin, gdata>>
    /\ UNCHANGED others

InitBuilder ==
    /\ key = <<>>
    /\ stack = <<>>
    /\ uniforms = <<>>
    /\ resources = <<>>
    /\ log = <<>>
    /\ dict = <<>>
    /\ rtEffectDict = {}
    /\ status = "ok"
    /\ pre = EmptySnapshot
    /\ lastOp = [name |-> "none", arg |-> Null]
    /\ ops = 0
    /\ threads = <<>>
    /\ paintDict = <<>>
    /\ combo = Null
    /\ client = Null
    /\ canvas = Null
    /\ scoped = Null

-----------------------------------------------------------------------------
(* Operations of the client on the builder itself *)

\* builder->endBlock()
EndBlock ==
    /\ status = "ok"
    /\ Commit(endBlock(S), "endBlock", Null, 0)

\* PaintParamsKeyBuilder::lockAsKey: the client declares the key finished.  The
\* key is handed out and builder and gatherer are cleared for the next paint;
\* the dictionaries live on.
lockAsKey(s) ==
    IF s.status # "ok" THEN s
    ELSE IF s.stack # <<>> THEN SkUNREACHABLE(s)
    ELSE [s EXCEPT !.key = <<>>, !.uniforms = <<>>, !.resources = <<>>]

LockAsKey ==
    /\ status = "ok"
    /\ ops > 0
    /\ LET s1 == lockAsKey(S)
       IN  /\ key' = s1.key
           /\ stack' = s1.stack
           /\ uniforms' = s1.uniforms
           /\ resources' = s1.resources
           /\ status' = s1.status
           /\ log' = <<>>
           /\ pre' = IF s1.status = "ok" THEN [EmptySnapshot EXCEPT !.stack = stack]
                     ELSE Snapshot
           /\ lastOp' = [name |-> "lockAsKey", arg |-> Null]
           /\ ops' = IF s1.status = "ok" THEN 0 ELSE ops
    /\ UNCHANGED <<debugBuild, gatherer, keyContext, effect, gin, gdata, dict, rtEffectDict>>
    /\ UNCHANGED others

-----------------------------------------------------------------------------
(* Block writers called by the client *)

CanWrite == status = "ok" /\ ops < MaxOps

PriorOutputBlock ==
    /\ CanWrite
    /\ Commit(PriorOutputBlock_BeginBlock(S), "PriorOutputBlock", Null, 1)

SolidColorShaderBlock ==
    /\ CanWrite
    /\ \E c \in Colors :
        Commit(SolidColorShaderBlock_BeginBlock(S, c), "SolidColorShaderBlock",
               [premulColor |-> c], 1)

DstReadSampleBlock ==
    /\ CanWrite
    /\ Commit(DstReadSampleBlock_BeginBlock(S, "dst", <<0, 0, 1, 1>>),
              "DstReadSampleBlock", [dstTexture |-> "dst"], 1)

DstReadFetchBlock ==
    /\ CanWrite
    /\ Commit(DstReadFetchBlock_BeginBlock(S), "DstReadFetchBlock", Null, 1)

MakeGradientData(a) ==
    IF a.ctor = "short" THEN GradientData2(a.type, a.numStops) ELSE GradientData(a)

\* the client builds a GradientData and hands it to BeginBlock
GradientShaderBlocks ==
    /\ CanWrite
    /\ \E a \in WriterGradientArgs :
        LET s0 == IF a.ctor = "full" THEN SkASSERT(S, GradientDataAsserts(a)) ELSE S
        IN  Commit(GradientShaderBlocks_BeginBlock(s0, MakeGradientData(a)),
                   "GradientShaderBlocks", MakeGradientData(a), 1)

LocalMatrixShaderBlock ==
    /\ CanWrite
    /\ \E d \in LMShaderDataInputs \cup {Null} :
        Commit(LocalMatrixShaderBlock_BeginBlock(S, d), "LocalMatrixShaderBlock", d, 1)

ImageShaderBlock ==
    /\ CanWrite
    /\ \E d \in ImageDataInputs \cup {Null} :
        Commit(ImageShaderBlock_BeginBlock(S, d), "ImageShaderBlock", d, 1)

YUVImageShaderBlock ==
    /\ CanWrite
    /\ \E d \in YUVImageDataInputs \cup {Null} :
        Commit(YUVImageShaderBlock_BeginBlock(S, d), "YUVImageShaderBlock", d, 1)

CoordClampShaderBlock ==
    /\ CanWrite
    /\ \E d \in CoordClampDataInputs \cup {Null} :
        Commit(CoordClampShaderBlock_BeginBlock(S, d), "CoordClampShaderBlock", d, 1)

DitherShaderBlock ==
    /\ CanWrite
    /\ \E d \in DitherDataInputs \cup {Null}, proxy \in {"null", "ditherLUT"} :
        Commit(DitherShaderBlock_BeginBlock(S, d, proxy), "DitherShaderBlock",
               [data |-> d, proxy |-> proxy], 1)

PerlinNoiseShaderBlock ==
    /\ CanWrite
    /\ \E d \in PerlinNoiseDataInputs \cup {Null} :
        Commit(PerlinNoiseShaderBlock_BeginBlock(S, d), "PerlinNoiseShaderBlock", d, 1)

BlendShaderBlock ==
    /\ CanWrite
    /\ Commit(BlendShaderBlock_BeginBlock(S), "BlendShaderBlock", Null, 1)

BlendModeBlenderBlock ==
    /\ CanWrite
    /\ \E m \in BlendModes :
        Commit(BlendModeBlenderBlock_BeginBlock(S, m), "BlendModeBlenderBlock",
               [blendMode |-> m], 1)

CoeffBlenderBlock ==
    /\ CanWrite
    /\ \E m \in {"kClear", "kSrcOver"} :
        Commit(CoeffBlenderBlock_BeginBlock(S, GetPorterDuffBlendConstants(m)),
               "CoeffBlenderBlock", [coeffs |-> GetPorterDuffBlendConstants(m)], 1)

DstColorBlock ==
    /\ CanWrite
    /\ Commit(DstColorBlock_BeginBlock(S), "DstColorBlock", Null, 1)

PrimitiveColorBlock ==
    /\ CanWrite
    /\ Commit(PrimitiveColorBlock_BeginBlock(S), "PrimitiveColorBlock", Null, 1)

ColorFilterShaderBlock ==
    /\ CanWrite
    /\ Commit(ColorFilterShaderBlock_BeginBlock(S), "ColorFilterShaderBlock", Null, 1)

MatrixColorFilterBlock ==
    /\ CanWrite
    /\ \E d \in MatrixColorFilterDataInputs \cup {Null} :
        Commit(MatrixColorFilterBlock_BeginBlock(S, d), "MatrixColorFilterBlock", d, 1)

ComposeColorFilterBlock ==
    /\ CanWrite
    /\ Commit(ComposeColorFilterBlock_BeginBlock(S), "ComposeColorFilterBlock", Null, 1)

GaussianColorFilterBlock ==
    /\ CanWrite
    /\ Commit(GaussianColorFilterBlock_BeginBlock(S), "GaussianColorFilterBlock", Null, 1)

TableColorFilterBlock ==
    /\ CanWrite
    /\ \E d \in TableColorFilterDataInputs :
        Commit(TableColorFilterBlock_BeginBlock(S, d), "TableColorFilterBlock", d, 1)

ColorSpaceTransformBlock ==
    /\ CanWrite
    /\ \E d \in ColorSpaceTransformDataInputs :
        Commit(ColorSpaceTransformBlock_BeginBlock(S, d), "ColorSpaceTransformBlock", d, 1)

RuntimeEffectBlock ==
    /\ CanWrite
    /\ \E d \in ShaderDataInputs :
        Commit(RuntimeEffectBlock_BeginBlock(S, d), "RuntimeEffectBlock", d, 1)

\* AddToKey on a table colour filter: the proxy of its bitmap is created, or not
AddToKeyTableColorFilter ==
    /\ CanWrite
    /\ \E proxy \in {"null", "table"} :
        Commit(AddToKey_ColorFilter(S, TableCF(proxy)), "AddToKey", TableCF(proxy), 1)

-----------------------------------------------------------------------------
(* Conversions of the effect tree the client holds *)

CanConvert == status = "ok" /\ ops < MaxConversions

\* the client opens the parent block under which it converts an effect
OpenParent ==
    /\ CanConvert
    /\ Commit(ColorFilterShaderBlock_BeginBlock(S), "ColorFilterShaderBlock", Null, 1)

AddToKeyBlender ==
    /\ CanConvert
    /\ effect.kind = "blender"
    /\ Commit(AddToKey_Blender(S, effect.e), "AddToKey", effect.e, 1)

AddToKeyColorFilter ==
    /\ CanConvert
    /\ effect.kind = "colorFilter"
    /\ Commit(AddToKey_ColorFilter(S, effect.e), "AddToKey", effect.e, 1)

AddDstBlend ==
    /\ CanConvert
    /\ effect.kind = "blender"
    /\ Commit(AddDstBlendBlock(S, effect.e), "AddDstBlendBlock", effect.e, 1)

AddPrimitiveBlend ==
    /\ CanConvert
    /\ effect.kind = "blender"
    /\ Commit(AddPrimitiveBlendBlock(S, effect.e), "AddPrimitiveBlendBlock", effect.e, 1)

AddColorBlend ==
    /\ CanConvert
    /\ effect.kind = "colorBlend"
    /\ Commit(AddColorBlendBlock(S, effect.e.bm, effect.e.srcColor),
              "AddColorBlendBlock", effect.e, 1)

-----------------------------------------------------------------------------
(* GradientData construction *)

ConstructGradientData ==
    /\ status = "ok"
    /\ IsNull(gdata)
    /\ IF debugBuild /\ ~GradientDataAsserts(gin)
       THEN status' = "abort" /\ UNCHANGED gdata
       ELSE gdata' = GradientData(gin) /\ UNCHANGED status
    /\ UNCHANGED <<debugBuild, gatherer, key, stack, uniforms, resources, log, dict,
                   rtEffectDict, keyContext, pre, lastOp, effect, ops, gin>>
    /\ UNCHANGED others

\* the constructed data is handed to BeginBlock
BeginConstructedGradient ==
    /\ CanWrite
    /\ ~IsNull(gdata)
    /\ Commit(GradientShaderBlocks_BeginBlock(S, gdata), "GradientShaderBlocks", gdata, 1)

-----------------------------------------------------------------------------
(* Recording threads on one shared dictionary *)

Threads == 1..MaxThreads

\* the runtime blenders a paint may carry
RuntimePaints == {b \in Blenders : b.type = "Runtime"}

\* ShaderCodeDictionary::findOrCreate(PaintParamsKeyBuilder*): the keys held
\* after the call, under the dictionary's lock
PaintDictAfter(d, k) == IF InDict(d, k) THEN d ELSE Append(d, k)

\* ... and the UniquePaintParamsID it returns
findOrCreate(d, k) ==
    LET d1 == PaintDictAfter(d, k) IN CHOOSE i \in 1..Len(d1) : d1[i] = k

\* the builder, gatherer and key context a thread owns
ThreadBuilder ==
    [debug |-> debugBuild, gatherer |-> gatherer, ctx |-> keyContext,
     key |-> <<>>, stack |-> <<>>, uniforms |-> <<>>, resources |-> <<>>,
     log |-> <<>>, dict |-> <<>>, rtEffectDict |-> {}, status |-> "ok"]

IdleThread ==
    [pc |-> "idle", paint |-> NullEffect, s |-> ThreadBuilder, seen |-> {}, paints |-> 0]

ThreadFrame ==
    UNCHANGED <<debugBuild, gatherer, key, stack, uniforms, resources, log, rtEffectDict,
                keyContext, status, pre, lastOp, effect, ops, gin, gdata, combo, client, canvas, scoped>>

\* add_to_key(SkRuntimeBlender) up to and including RuntimeEffectBlock::BeginBlock:
\* the effect is interned in the shared dictionary and its block begun
ThreadBeginBlock(t) ==
    /\ threads[t].pc = "idle"
    /\ threads[t].paints < MaxPaints
    /\ \E b \in RuntimePaints :
        LET s0 == [threads[t].s EXCEPT !.dict = dict]
            transformed == [bytes |-> TransformUniforms(RuntimeEffects[b.effect].uniforms,
                                                         b.uniforms, s0.ctx.colorSpace)]
            s1 == RuntimeEffectBlock_BeginBlock(
                      s0, [fEffect |-> b.effect, fUniforms |-> transformed])
        IN  /\ dict' = s1.dict
            /\ threads' = [threads EXCEPT ![t] =
                    [@ EXCEPT !.pc = "begun", !.paint = b, !.s = s1,
                              !.seen = @ \cup {[kind |-> "snippet", content |-> b.effect,
                                                 id |-> s1.key[Len(s1.key)]]}]]
    /\ UNCHANGED paintDict
    /\ ThreadFrame

\* ... the rest of it: the children, then endBlock
ThreadEndBlock(t) ==
    /\ threads[t].pc = "begun"
    /\ LET b == threads[t].paint
           s2 == endBlock(AddChildrenToKey([threads[t].s EXCEPT !.dict = dict], b.children,
                                           RuntimeEffects[b.effect].children))
       IN  /\ dict' = s2.dict
           /\ threads' = [threads EXCEPT ![t] = [@ EXCEPT !.pc = "ended", !.s = s2]]
    /\ UNCHANGED paintDict
    /\ ThreadFrame

\* the finished key is handed to the shared dictionary, which returns its id;
\* builder and gatherer are cleared for the next paint
ThreadSubmit(t) ==
    /\ threads[t].pc = "ended"
    /\ threads[t].s.status = "ok"
    /\ LET k == threads[t].s.key
           s3 == lockAsKey(threads[t].s)
       IN  /\ paintDict' = PaintDictAfter(paintDict, k)
           /\ threads' = [threads EXCEPT ![t] =
                   [@ EXCEPT !.pc = "idle", !.paint = NullEffect,
                             !.s = [s3 EXCEPT !.log = <<>>],
                             !.paints = @ + 1,
                             !.seen = @ \cup {[kind |-> "paint", content |-> k,
                                                id |-> findOrCreate(paintDict, k)]}]]
    /\ UNCHANGED dict
    /\ ThreadFrame

-----------------------------------------------------------------------------
(* SkBlenderID, SkCombinationOption and SkCombinationBuilder               *)
(* (include/core/SkCombinationBuilder.h).  The header declares the classes; *)
(* the bodies of the builder's members are modelled from its description.  *)

\* enum class SkShaderType, in declaration order
SkShaderType ==
    << "kSolidColor", "kLinearGradient", "kRadialGradient", "kSweepGradient",
       "kConicalGradient", "kLocalMatrix", "kImage", "kBlendShader" >>

kSkShaderTypeCount == Len(SkShaderType)

GradientShaderTypes ==
    {"kLinearGradient", "kRadialGradient", "kSweepGradient", "kConicalGradient"}

\* the GradientType that a gradient SkShaderType is written with
GradientTypeOf(type) ==
    CASE type = "kLinearGradient" -> "kLinear" [] type = "kRadialGradient" -> "kRadial"
      [] type = "kSweepGradient" -> "kSweep" [] type = "kConicalGradient" -> "kConical"

\* enum class SkBlendMode, in declaration order; a mode's value is its position - 1
SkBlendMode ==
    << "kClear", "kSrc", "kDst", "kSrcOver", "kDstOver", "kSrcIn", "kDstIn",
       "kSrcOut", "kDstOut", "kSrcATop", "kDstATop", "kXor", "kPlus", "kModulate",
       "kScreen", "kOverlay", "kDarken", "kLighten", "kColorDodge", "kColorBurn",
       "kHardLight", "kSoftLight", "kDifference", "kExclusion", "kMultiply",
       "kHue", "kSaturation", "kColor", "kLuminosity" >>

kSkBlendModeCount == Len(SkBlendMode)

BlendModeValues ==
    [m \in {SkBlendMode[i] : i \in 1..kSkBlendModeCount} |->
        (CHOOSE i \in 1..kSkBlendModeCount : SkBlendMode[i] = m) - 1]

BlendModeValue(mode) == BlendModeValues[mode]

AllBlendModeValues == 0..(kSkBlendModeCount - 1)

\* enum class BlendModeGroup with the range that the header gives each group
BlendModeGroup == {"kPorterDuff", "kAdvanced", "kColorAware", "kAll"}

BlendModeGroupRange(group) ==
    CASE group = "kPorterDuff" -> <<"kClear", "kScreen">>
      [] group = "kAdvanced" -> <<"kOverlay", "kMultiply">>
      [] group = "kColorAware" -> <<"kHue", "kLuminosity">>
      [] group = "kAll" -> <<"kClear", "kLuminosity">>

\* SkBlenderID(): fID(0)
SkBlenderID_Default == [fID |-> 0]

\* SkBlenderID(uint32_t id), the private constructor the dictionary uses; the
\* ids of the model stay far below the 2^32 at which a uint32_t wraps
SkBlenderID_FromUInt(id) == [fID |-> id]

SkBlenderID_CopyNone(src) == [fID |-> 0]

\* SkBlenderID(const SkBlenderID& src) : fID(src.fID)
SkBlenderID_Copy(src) == [fID |-> src.fID]

\* SkBlenderID::isValid
SkBlenderID_isValid(id) == id.fID > 0

\* SkBlenderID::operator==
SkBlenderID_Equals(a, b) == a.fID = b.fID

\* SkBlenderID::operator=: fID = src.fID
SkBlenderID_Assign(dst, src) == [dst EXCEPT !.fID = src.fID]

\* SkBlenderID::asUInt
asUInt(id) == id.fID

\* the child slots an option of a type has
NumChildSlots(type) ==
    CASE type = "kLocalMatrix" -> 1
      [] type = "kBlendShader" -> 2
      [] OTHER -> 0

\* SkCombinationBuilder after construction or reset, in generation gen
EmptyCombinationBuilder(gen) ==
    [arena |-> <<>>, shaderOptions |-> <<>>, blendModes |-> {}, gen |-> gen]

\* an SkCombinationOption: the pointer into the arena (0 is nullptr) and, for the
\* model's bookkeeping only, the generation of the arena it points into
Handle(ptr, gen) == [fDataInArena |-> ptr, gen |-> gen]

\* SkCombinationOption::isValid: return fDataInArena
SkCombinationOption_isValid(h) == h.fDataInArena # 0

IsStale(b, h) == SkCombinationOption_isValid(h) /\ h.gen # b.gen

\* SkCombinationOption::type and numChildSlots of a handle of this generation
SkCombinationOption_type(b, h) == b.arena[h.fDataInArena].type

SkCombinationOption_numChildSlots(b, h) == Len(b.arena[h.fDataInArena].slots)

\* the alternatives one option stands for by itself: one per stop count of a
\* gradient's range, one per tile-mode pair of an image, one otherwise
Intrinsic(o) ==
    IF o.type \in GradientShaderTypes THEN o.maxNumStops - o.minNumStops + 1
    ELSE IF o.type = "kImage" /\ o.tileModes > 0 THEN o.tileModes
    ELSE 1

\* a new option in the arena; its index is the new length of the arena
addOptionInternal(b, d) ==
    [b EXCEPT !.arena = Append(@, [type |-> d.type,
                                   minNumStops |-> d.minNumStops,
                                   maxNumStops |-> d.maxNumStops,
                                   tileModes |-> d.tileModes,
                                   slots |-> [i \in 1..NumChildSlots(d.type) |-> <<>>]])]

\* SkCombinationBuilder::addOption(SkShaderType, ...): a new top-level option
addOption_Shader(b, d) ==
    LET b1 == addOptionInternal(b, d)
    IN  [b1 EXCEPT !.shaderOptions = Append(@, Len(b1.arena))]

\* SkCombinationOption::addChildOption(childIndex, ...) through a handle of this
\* generation: a new alternative in the slot, or nothing for a slot out of range
CanAddChild(b, h, childIndex) ==
    /\ SkCombinationOption_isValid(h)
    /\ childIndex < SkCombinationOption_numChildSlots(b, h)

addChildOption_FirstSlot(b, h, childIndex, d) ==
    IF ~CanAddChild(b, h, childIndex) THEN b
    ELSE LET b1 == addOptionInternal(b, d)
         IN  [b1 EXCEPT !.arena[h.fDataInArena].slots[1] = Append(@, Len(b1.arena))]

addChildOption(b, h, childIndex, d) ==
    IF ~CanAddChild(b, h, childIndex) THEN b
    ELSE LET b1 == addOptionInternal(b, d)
         IN  [b1 EXCEPT !.arena[h.fDataInArena].slots[childIndex + 1] =
                            Append(@, Len(b1.arena))]

addOption_BlendMode(b, bm) == [b EXCEPT !.blendModes = @ \cup {BlendModeValue(bm)}]

addOption_BlendModeRange_Open(b, rangeStart, rangeEnd) ==
    [b EXCEPT !.blendModes =
        @ \cup {v \in AllBlendModeValues :
                    BlendModeValue(rangeStart) <= v /\ v < BlendModeValue(rangeEnd)}]

\* addOption(SkBlendMode rangeStart, SkBlendMode rangeEnd): inclusive
addOption_BlendModeRange(b, rangeStart, rangeEnd) ==
    [b EXCEPT !.blendModes =
        @ \cup {v \in AllBlendModeValues :
                    BlendModeValue(rangeStart) <= v /\ v <= BlendModeValue(rangeEnd)}]

addOption_BlendModeGroup(b, group) ==
    addOption_BlendModeRange(b, BlendModeGroupRange(group)[1], BlendModeGroupRange(group)[2])

reset_KeepOptions(b) == [b EXCEPT !.gen = @ + 1]

\* SkCombinationBuilder::reset: the arena is rewound and both option lists emptied
reset(b) == EmptyCombinationBuilder(b.gen + 1)

RECURSIVE OptionCombinations(_, _)
RECURSIVE SumCombinations(_, _)
RECURSIVE ProductOfSlots(_, _)

\* the combinations of the alternatives listed in seq, added up
SumCombinations(b, seq) ==
    IF seq = <<>> THEN 0
    ELSE OptionCombinations(b, Head(seq)) + SumCombinations(b, Tail(seq))

SlotCombinations_Count(b, slot) == Len(slot)

\* the combination count of one child slot; a slot nothing was added to is
\* left out of the key and counts once
SlotCombinations(b, slot) == IF slot = <<>> THEN 1 ELSE SumCombinations(b, slot)

ProductOfSlots(b, slots) ==
    IF slots = <<>> THEN 1
    ELSE SlotCombinations(b, Head(slots)) * ProductOfSlots(b, Tail(slots))

OptionCombinations(b, i) == Intrinsic(b.arena[i]) * ProductOfSlots(b, b.arena[i].slots)

numCombinations_Flat(b) == Len(b.arena) * Cardinality(b.blendModes)

\* SkCombinationBuilder::numCombinations
numCombinations(b) == SumCombinations(b, b.shaderOptions) * Cardinality(b.blendModes)

\* the snippet that begins the block of variant v of an option
ShaderSnippet(o, v) ==
    CASE o.type = "kSolidColor" -> ID("kSolidColorShader")
      [] o.type \in GradientShaderTypes ->
            GradientCodeSnippetID(GradientTypeOf(o.type), o.minNumStops + v - 1)
      [] o.type = "kLocalMatrix" -> ID("kLocalMatrixShader")
      [] o.type = "kImage" -> ID("kImageShader")
      [] o.type = "kBlendShader" -> ID("kBlendShader")

\* every a \o b with a from A and b from B, in the order of a walk over A and then B
Cross(A, B) ==
    [i \in 1..(Len(A) * Len(B)) |->
        A[((i - 1) \div Len(B)) + 1] \o B[((i - 1) % Len(B)) + 1]]

RECURSIVE OptionKeys(_, _)
RECURSIVE AlternativeKeys(_, _)
RECURSIVE SlotsKeys(_, _)

\* the key fragments of the alternatives listed in seq, one after the other
AlternativeKeys(b, seq) ==
    IF seq = <<>> THEN <<>>
    ELSE OptionKeys(b, Head(seq)) \o AlternativeKeys(b, Tail(seq))

SlotKeys(b, slot) == IF slot = <<>> THEN << <<>> >> ELSE AlternativeKeys(b, slot)

SlotsKeys(b, slots) ==
    IF slots = <<>> THEN << <<>> >>
    ELSE Cross(SlotKeys(b, Head(slots)), SlotsKeys(b, Tail(slots)))

\* the key fragments of one option: its own block, then its children in slot order
OptionKeys(b, i) ==
    LET o == b.arena[i]
        heads == [v \in 1..Intrinsic(o) |-> <<ShaderSnippet(o, v)>>]
    IN  Cross(heads, SlotsKeys(b, o.slots))

\* the blend modes of the set in ascending order
ModesInOrder(modes) ==
    SelectSeq([i \in 1..kSkBlendModeCount |-> i - 1], LAMBDA v : v \in modes)

\* SkCombinationBuilder::buildCombinations: the keys handed to the callback, one
\* per combination, each the blocks of the shader followed by the blend mode
buildCombinations(b) ==
    LET shaders == AlternativeKeys(b, b.shaderOptions)
        modes == ModesInOrder(b.blendModes)
    IN  [i \in 1..(Len(shaders) * Len(modes)) |->
            [shader |-> shaders[((i - 1) \div Len(modes)) + 1],
             blend |-> modes[((i - 1) % Len(modes)) + 1]]]

DistinctKeys(b) ==
    LET keys == buildCombinations(b)
    IN  {keys[i] : i \in 1..Len(keys)}

-----------------------------------------------------------------------------
(* The client of an SkCombinationBuilder *)

PlainOption(type) == [type |-> type, minNumStops |-> 0, maxNumStops |-> 0, tileModes |-> 0]

\* addOption(type), addOption(type, minNumStops, maxNumStops) and
\* addOption(type, tileModes) as the client calls them
ShaderOptionInputs ==
    {PlainOption(t) : t \in {"kSolidColor", "kBlendShader"}}
        \cup {[type |-> "kLinearGradient", minNumStops |-> 3, maxNumStops |-> 5,
               tileModes |-> 0],
              [type |-> "kImage", minNumStops |-> 0, maxNumStops |-> 0, tileModes |-> 2]}

BlendModeInputs == {"kSrcOver"}

BlendModeRangeInputs == {<<"kClear", "kDstOver">>, <<"kDstOver", "kSrcOver">>}

\* addChildOption as the client calls it
ChildOptionInputs ==
    {PlainOption("kSolidColor"),
     [type |-> "kLinearGradient", minNumStops |-> 3, maxNumStops |-> 5, tileModes |-> 0]}

ChildIndexInputs == 0..1

\* what using a handle into a rewound arena can do: stop the program, write
\* into the option that now lives at that address, or write into unused memory
StaleOutcomes == {"crash", "reused", "lost"}

ComboFrame ==
    UNCHANGED <<debugBuild, gatherer, key, stack, uniforms, resources, log, dict,
                rtEffectDict, keyContext, effect, gin, gdata, threads, paintDict,
                canvas, scoped>>

ComboStep(b1, c1, name, arg, st) ==
    /\ combo' = b1
    /\ client' = c1
    /\ lastOp' = [name |-> name, arg |-> arg]
    /\ pre' = [combo |-> combo, client |-> client]
    /\ ops' = ops + 1
    /\ status' = st
    /\ ComboFrame

CanCall == status = "ok" /\ ops < MaxCalls

Holding(h) == [client EXCEPT !.handles = @ \cup {h}]

\* SkCombinationBuilder::addOption for a shader: the client keeps the handle
ClientAddOption(d) ==
    /\ CanCall
    /\ Len(combo.arena) < MaxOptions
    /\ LET b1 == addOption_Shader(combo, d)
           h == Handle(Len(b1.arena), combo.gen)
       IN  ComboStep(b1, Holding(h), "addOption", [option |-> d, handle |-> h], "ok")

\* SkCombinationOption::addChildOption through a handle that is null or points
\* into the arena of this generation
ClientAddChildOption(h, childIndex, d) ==
    /\ CanCall
    /\ Len(combo.arena) < MaxOptions
    /\ h \in client.handles
    /\ ~IsStale(combo, h)
    /\ LET b1 == addChildOption(combo, h, childIndex, d)
           r == IF CanAddChild(combo, h, childIndex)
                THEN Handle(Len(b1.arena), combo.gen)
                ELSE Handle(0, combo.gen)
       IN  ComboStep(b1, Holding(r), "addChildOption",
                     [parent |-> h, childIndex |-> childIndex, option |-> d, handle |-> r],
                     "ok")

\* addChildOption through a handle returned before the last reset: isValid()
\* still passes and the call reads and writes the rewound arena
ClientUseStaleHandle(h, childIndex, d, outcome) ==
    /\ CanCall
    /\ Len(combo.arena) < MaxOptions
    /\ h \in client.handles
    /\ IsStale(combo, h)
    /\ LET now == Handle(h.fDataInArena, combo.gen)
           hit == /\ outcome = "reused"
                  /\ h.fDataInArena <= Len(combo.arena)
                  /\ CanAddChild(combo, now, childIndex)
           b1 == IF hit THEN addChildOption(combo, now, childIndex, d) ELSE combo
           r == IF hit THEN Handle(Len(b1.arena), combo.gen) ELSE Handle(0, combo.gen)
       IN  ComboStep(b1, Holding(r), "staleAddChildOption",
                     [parent |-> h, childIndex |-> childIndex, option |-> d, handle |-> r,
                      outcome |-> outcome],
                     IF outcome = "crash" THEN "ub" ELSE "ok")

ClientAddBlendMode(bm) ==
    /\ CanCall
    /\ ComboStep(addOption_BlendMode(combo, bm), client, "addBlendMode", [mode |-> bm], "ok")

ClientAddBlendModeRange(range) ==
    /\ CanCall
    /\ ComboStep(addOption_BlendModeRange(combo, range[1], range[2]), client,
                 "addBlendModeRange", [rangeStart |-> range[1], rangeEnd |-> range[2]], "ok")

ClientAddBlendModeGroup(group) ==
    /\ CanCall
    /\ ComboStep(addOption_BlendModeGroup(combo, group), client,
                 "addBlendModeGroup", [group |-> group], "ok")

ClientReset ==
    /\ CanCall
    /\ ComboStep(reset(combo), client, "reset", Null, "ok")

-----------------------------------------------------------------------------
(* The client of SkBlenderID: three variables of the type *)

BlenderIDVars == {"a", "b", "c"}

BlenderIDFrame ==
    UNCHANGED <<debugBuild, gatherer, key, stack, uniforms, resources, log, dict,
                rtEffectDict, keyContext, effect, gin, gdata, threads, paintDict,
                status, ops, combo, canvas, scoped>>

BlenderIDStep(x, id, name, arg) ==
    /\ client' = [client EXCEPT !.ids[x] = id]
    /\ lastOp' = [name |-> name, arg |-> arg]
    /\ pre' = [client |-> client]
    /\ BlenderIDFrame

\* SkBlenderID x;
DefaultConstruct(x) ==
    BlenderIDStep(x, SkBlenderID_Default, "construct", [dst |-> x])

\* the dictionary returns SkBlenderID(id) and the client stores it in x
DictionaryIssues(x, id) ==
    BlenderIDStep(x, SkBlenderID_FromUInt(id), "issue", [dst |-> x, id |-> id])

\* SkBlenderID x(y);
CopyConstruct(x, y) ==
    BlenderIDStep(x, SkBlenderID_Copy(client.ids[y]), "copy", [dst |-> x, src |-> y])

\* x = y;
AssignBlenderID(x, y) ==
    BlenderIDStep(x, SkBlenderID_Assign(client.ids[x], client.ids[y]), "assign",
                  [dst |-> x, src |-> y])

-----------------------------------------------------------------------------
(* sksg::RenderNode: RenderContext, ScopedRenderContext and the canvas *)

\* SkMatrix values are tokens like the local matrices: 0 is singular, 1 the
\* identity, 2 and 3 are each other's inverse.  SkMatrix::invert: <<ok, inverse>>
SkMatrix_invert(m) ==
    CASE m = 0 -> <<FALSE, 0>>
      [] m = 1 -> <<TRUE, 1>>
      [] m = 2 -> <<TRUE, 3>>
      [] m = 3 -> <<TRUE, 2>>

\* SkMatrix::Concat(a, b), kept as the pair
SkMatrix_Concat(a, b) == <<a, b>>

\* a colour filter is the sequence of the filters it applies, first applied
\* first; nullptr is the empty sequence.
\* SkColorFilter::MakeComposeFilter(outer, inner)
MakeComposeFilter(outer, inner) ==
    IF outer = <<>> THEN inner
    ELSE IF inner = <<>> THEN outer
    ELSE inner \o outer

\* a shader on a paint: the shader and the local matrix it was wrapped with
\* (<<>> when it was not wrapped); nullptr is NoShader
NoShader == [sh |-> "null", lm |-> <<>>]

PaintShader(sh) == [sh |-> sh, lm |-> <<>>]

\* SkShader::makeWithLocalMatrix
makeWithLocalMatrix(sh, m) == [sh |-> sh, lm |-> m]

\* a default-constructed SkPaint
SkPaint_Default ==
    [alpha |-> 255, colorFilter |-> <<>>, shader |-> NoShader, blendMode |-> "kSrcOver",
     imageFilter |-> "null"]

\* an opacity is the fraction <<numerator, denominator>>
OpacityTimes(x, y) ==
    IF x[1] * y[1] = 0 THEN <<0, 1>> ELSE <<x[1] * y[1], x[2] * y[2]>>

\* SkToU8(sk_float_round2int(alpha * opacity)): floor(alpha * opacity + 1/2)
ModulatedAlpha(alpha, opacity) ==
    ((2 * alpha * opacity[1] + opacity[2]) \div (2 * opacity[2])) % 256

\* RenderContext(), as SkSGRenderNode.h declares its members
RenderContext_Default ==
    [fColorFilter |-> <<>>, fShader |-> "null", fShaderCTM |-> 1, fOpacity |-> <<1, 1>>,
     fBlendMode |-> "kSrcOver"]

\* a context that reports a modification whenever its opacity changes the
\* alpha and looks at nothing else
modulatePaint_AlphaOnly(ctx, ctm, paint) ==
    LET alpha == ModulatedAlpha(paint.alpha, ctx.fOpacity)
    IN  IF alpha # paint.alpha
        THEN [ret |-> TRUE,
              paint |-> [paint EXCEPT !.alpha = alpha, !.blendMode = ctx.fBlendMode]]
        ELSE [ret |-> FALSE, paint |-> paint]

\* RenderContext::modulatePaint: <<returned value, the paint afterwards>>
modulatePaint(ctx, ctm, paint) ==
    LET initial_alpha == paint.alpha
        alpha == ModulatedAlpha(initial_alpha, ctx.fOpacity)
        inv_ctm == SkMatrix_invert(ctm)
        p1 == [paint EXCEPT !.alpha = alpha,
                            !.colorFilter = MakeComposeFilter(ctx.fColorFilter, @)]
        p2 == IF ctx.fShader # "null"
              THEN IF ctx.fShaderCTM # ctm
                   THEN IF inv_ctm[1]
                        THEN [p1 EXCEPT !.shader = makeWithLocalMatrix(
                                  ctx.fShader, SkMatrix_Concat(inv_ctm[2], ctx.fShaderCTM))]
                        ELSE p1
                   ELSE [p1 EXCEPT !.shader = PaintShader(ctx.fShader)]
              ELSE p1
    IN  IF alpha # initial_alpha \/ ctx.fColorFilter # <<>> \/ ctx.fShader # "null"
           \/ ctx.fBlendMode # paint.blendMode
        THEN [ret |-> TRUE, paint |-> [p2 EXCEPT !.blendMode = ctx.fBlendMode]]
        ELSE [ret |-> FALSE, paint |-> paint]

\* the canvas is its stack of saves: "save" for a plain save, the layer's paint
\* for a saveLayer.  SkCanvas::getSaveCount
getSaveCount(cv) == Len(cv.saves) + 1

\* SkCanvas::saveLayer(bounds, paint)
saveLayer(cv, paint) == [cv EXCEPT !.saves = Append(@, [layer |-> paint])]

\* SkCanvas::restoreToCount: restores until the save count is count (1 at least)
restoreToCount(cv, count) ==
    LET n == IF count < 1 THEN 1 ELSE count
    IN  IF getSaveCount(cv) > n THEN [cv EXCEPT !.saves = SubSeq(@, 1, n - 1)] ELSE cv

\* SkCanvas::restore: undoes the newest save
restore(cv) ==
    IF cv.saves = <<>> THEN cv ELSE [cv EXCEPT !.saves = SubSeq(@, 1, Len(@) - 1)]

\* a ScopedRenderContext is [fCanvas, fCtx, fRestoreCount], fCanvas being the
\* canvas as it is now
ScopedRenderContext_ctor(cv, ctx) ==
    [fCanvas |-> cv,
     fCtx |-> IF IsNull(ctx) THEN RenderContext_Default ELSE ctx,
     fRestoreCount |-> getSaveCount(cv)]

\* a destructor that undoes one save
ScopedRenderContext_dtor_RestoreOnce(self) ==
    IF self.fRestoreCount >= 0
    THEN [self EXCEPT !.fCanvas = restore(@)]
    ELSE self

ScopedRenderContext_dtor(self) ==
    IF self.fRestoreCount >= 0
    THEN [self EXCEPT !.fCanvas = restoreToCount(@, self.fRestoreCount)]
    ELSE self

\* the move constructor: <<the new object, what is left of that>>; the scope
\* goes with the new object and that no longer restores
ScopedRenderContext_move(that) ==
    << that,
       [that EXCEPT !.fCtx.fColorFilter = <<>>, !.fCtx.fShader = "null",
                    !.fRestoreCount = -1] >>

modulateOpacity(self, opacity) ==
    [self EXCEPT !.fCtx.fOpacity = OpacityTimes(@, opacity)]

modulateColorFilter(self, cf) ==
    [self EXCEPT !.fCtx.fColorFilter = MakeComposeFilter(@, cf)]

\* the last shader wins
modulateShader_Last(self, sh, shader_ctm) ==
    [self EXCEPT !.fCtx.fShader = sh, !.fCtx.fShaderCTM = shader_ctm]

modulateShader(self, sh, shader_ctm) ==
    IF self.fCtx.fShader = "null"
    THEN [self EXCEPT !.fCtx.fShader = sh, !.fCtx.fShaderCTM = shader_ctm]
    ELSE self

modulateBlendMode(self, mode) == [self EXCEPT !.fCtx.fBlendMode = mode]

\* an isolation that keeps the context after it has saved the layer
setIsolation_KeepContext(self, ctm, isolation) ==
    LET m == modulatePaint(self.fCtx, ctm, SkPaint_Default)
    IN  IF isolation /\ m.ret
        THEN [self EXCEPT !.fCanvas = saveLayer(@, m.paint)]
        ELSE self

setIsolation(self, ctm, isolation) ==
    LET m == modulatePaint(self.fCtx, ctm, SkPaint_Default)
    IN  IF isolation /\ m.ret
        THEN [self EXCEPT !.fCanvas = saveLayer(@, m.paint),
                          !.fCtx = RenderContext_Default]
        ELSE self

setFilterIsolation(self, ctm, filter) ==
    LET m == modulatePaint(self.fCtx, ctm, SkPaint_Default)
        layer_paint == [m.paint EXCEPT !.imageFilter = filter]
    IN  [self EXCEPT !.fCanvas = saveLayer(@, layer_paint),
                     !.fCtx = RenderContext_Default]

-----------------------------------------------------------------------------
(* One RenderNode::onRender: a temporary ScopedRenderContext, the calls chained
   on it, the local it may be moved into, and what is drawn under it *)

ScopedObjects == {"temp", "local"}

OpacityInputs == {<<1, 2>>, <<1, 1>>}

ColorFilterInputs == {<<>>, <<"cfA">>}

ShaderInputs == {<<"null", 1>>, <<"shA", 1>>, <<"shA", 2>>, <<"shB", 2>>}

RenderBlendModes == {"kSrcOver", "kScreen"}

\* the CTM at the time of the call: singular, or the matrix 2
CTMInputs == {0, 2}

\* the context handed to onRender: none, or one an ancestor has modulated
RenderContextInputs ==
    {Null, [RenderContext_Default EXCEPT !.fOpacity = <<1, 2>>],
     [RenderContext_Default EXCEPT !.fShader = "shA", !.fShaderCTM = 2]}

\* the paints of the draw nodes under the render node
PaintInputs ==
    { SkPaint_Default,
      [SkPaint_Default EXCEPT !.alpha = 1],
      [SkPaint_Default EXCEPT !.colorFilter = <<"cfP">>],
      [SkPaint_Default EXCEPT !.shader = PaintShader("shP")],
      [SkPaint_Default EXCEPT !.blendMode = "kScreen"],
      [SkPaint_Default EXCEPT !.alpha = 1, !.colorFilter = <<"cfP">>,
                              !.shader = PaintShader("shP"), !.blendMode = "kScreen"] }

Unborn == [fCtx |-> RenderContext_Default, fRestoreCount |-> -1]

RenderFrame ==
    UNCHANGED <<debugBuild, gatherer, key, stack, uniforms, resources, log, dict,
                rtEffectDict, keyContext, effect, gin, gdata, threads, paintDict,
                status, ops, combo, client>>

\* the object as the C++ code sees it
Self(o) ==
    [fCanvas |-> canvas, fCtx |-> scoped.obj[o].fCtx,
     fRestoreCount |-> scoped.obj[o].fRestoreCount]

Fields(self) == [fCtx |-> self.fCtx, fRestoreCount |-> self.fRestoreCount]

RenderStep(cv1, sc1, name, arg) ==
    /\ canvas' = cv1
    /\ scoped' = sc1
    /\ pre' = [canvas |-> canvas, scoped |-> scoped]
    /\ lastOp' = [name |-> name, arg |-> arg]
    /\ RenderFrame

\* the object that holds the scope
Cur == IF scoped.life["local"] = "alive" THEN "local" ELSE "temp"

CanCallScoped ==
    /\ scoped.life[Cur] = "alive"
    /\ scoped.obj[Cur].fRestoreCount >= 0
    /\ scoped.calls < MaxRenderCalls

\* a call on the object that holds the scope
ScopedCall(self1, name, arg) ==
    RenderStep(self1.fCanvas,
               [scoped EXCEPT !.obj[Cur] = Fields(self1), !.calls = @ + 1],
               name, arg)

Construct(ctx) ==
    /\ scoped.life["temp"] = "unborn"
    /\ LET self == ScopedRenderContext_ctor(canvas, ctx)
       IN  RenderStep(self.fCanvas,
                      [scoped EXCEPT !.obj["temp"] = Fields(self),
                                     !.life["temp"] = "alive",
                                     !.atConstruction = getSaveCount(canvas)],
                      "construct", [ctx |-> ctx])

ModulateOpacity(opacity) ==
    /\ CanCallScoped
    /\ ScopedCall(modulateOpacity(Self(Cur), opacity), "modulateOpacity",
                  [opacity |-> opacity])

ModulateColorFilter(cf) ==
    /\ CanCallScoped
    /\ ScopedCall(modulateColorFilter(Self(Cur), cf), "modulateColorFilter", [cf |-> cf])

ModulateShader(sh, shader_ctm) ==
    /\ CanCallScoped
    /\ ScopedCall(modulateShader(Self(Cur), sh, shader_ctm), "modulateShader",
                  [sh |-> sh, shader_ctm |-> shader_ctm])

ModulateBlendMode(mode) ==
    /\ CanCallScoped
    /\ ScopedCall(modulateBlendMode(Self(Cur), mode), "modulateBlendMode", [mode |-> mode])

SetIsolation(ctm, isolation) ==
    /\ CanCallScoped
    /\ ScopedCall(setIsolation(Self(Cur), ctm, isolation), "setIsolation",
                  [ctm |-> ctm, isolation |-> isolation])

SetFilterIsolation(ctm, filter) ==
    /\ CanCallScoped
    /\ ScopedCall(setFilterIsolation(Self(Cur), ctm, filter), "setFilterIsolation",
                  [ctm |-> ctm, filter |-> filter])

\* a draw node under the render node modulates its paint with the context
ModulatePaint(ctm, paint) ==
    /\ CanCallScoped
    /\ LET m == modulatePaint(scoped.obj[Cur].fCtx, ctm, paint)
       IN  RenderStep(canvas, [scoped EXCEPT !.calls = @ + 1], "modulatePaint",
                      [ctm |-> ctm, paint |-> paint, ret |-> m.ret, out |-> m.paint])

\* const auto local_ctx = ScopedRenderContext(canvas, ctx).modulate...(...)
MoveConstruct ==
    /\ scoped.life["temp"] = "alive"
    /\ scoped.life["local"] = "unborn"
    /\ LET m == ScopedRenderContext_move(Self("temp"))
       IN  RenderStep(canvas,
                      [scoped EXCEPT !.obj["local"] = Fields(m[1]),
                                     !.obj["temp"] = Fields(m[2]),
                                     !.life["local"] = "alive"],
                      "move", Null)

\* the temporary dies at the end of its full expression, the local at the end
\* of onRender
Destroy(o) ==
    /\ scoped.life[o] = "alive"
    /\ o = "local" => scoped.life["temp"] = "dead"
    /\ LET self == ScopedRenderContext_dtor(Self(o))
       IN  RenderStep(self.fCanvas, [scoped EXCEPT !.life[o] = "dead"], "destroy",
                      [obj |-> o])

-----------------------------------------------------------------------------
(* RuntimeEffectBlock::ShaderData and its equality *)

\* an SkData object is [ptr, bytes]: which object it is and what it holds; a
\* null pointer is Null.  SkData::equals(other), called on a non-null object
SkData_equals(a, b) ==
    IF a = b THEN TRUE
    ELSE IF IsNull(b) THEN FALSE
    ELSE Len(a.bytes) = Len(b.bytes) /\ a.bytes = b.bytes

\* a comparison that lets a null left side match anything
skdata_matches_NullMatchesAll(a, b) ==
    IF ~IsNull(a) THEN SkData_equals(a, b) ELSE TRUE

skdata_matches(a, b) ==
    IF ~IsNull(a) THEN SkData_equals(a, b) ELSE a = b

\* RuntimeEffectBlock::ShaderData::operator==
ShaderData_Equals(lhs, rhs) ==
    lhs.fEffect = rhs.fEffect /\ skdata_matches(lhs.fUniforms, rhs.fUniforms)

RECURSIVE ByteSeqs(_)
ByteSeqs(n) ==
    IF n = 0 THEN {<<>>}
    ELSE ByteSeqs(n - 1)
         \cup {Append(b, x) : b \in {c \in ByteSeqs(n - 1) : Len(c) = n - 1}, x \in {1, 2}}

\* two SkData objects for each content, and no object
SkDataValues ==
    {Null} \cup {[ptr |-> p, bytes |-> b] : p \in {"d1", "d2"}, b \in ByteSeqs(MaxDataLen)}

\* ShaderData(effect) leaves fUniforms null; ShaderData(effect, uniforms) takes both
ShaderDataValues ==
    {[fEffect |-> e, fUniforms |-> u] : e \in {"rtA", "rtB"}, u \in SkDataValues}

ShaderDataFrame ==
    UNCHANGED <<debugBuild, gatherer, key, stack, uniforms, resources, log, dict,
                rtEffectDict, keyContext, effect, gin, gdata, threads, paintDict,
                status, ops, combo, client, canvas, scoped>>

\* the client compares two of the ShaderData it holds
CompareShaderData(x, y) ==
    /\ lastOp' = [name |-> "equals",
                  arg |-> [lhs |-> client[x], rhs |-> client[y],
                           ret |-> ShaderData_Equals(client[x], client[y])]]
    /\ pre' = Null
    /\ ShaderDataFrame

-----------------------------------------------------------------------------
(* Specifications *)

NoEffect == [kind |-> "none", e |-> NullEffect]

\* conversion of effect trees
Init ==
    /\ InitBuilder
    /\ debugBuild \in BOOLEAN
    /\ gatherer \in BOOLEAN
    /\ keyContext \in KeyContexts
    /\ effect \in Effects
    /\ gin = Null
    /\ gdata = Null

Next ==
    \/ OpenParent
    \/ AddToKeyBlender
    \/ AddToKeyColorFilter
    \/ AddDstBlend
    \/ AddPrimitiveBlend
    \/ AddColorBlend
    \/ EndBlock
    \/ LockAsKey

Spec == Init /\ [][Next]_vars

\* the block writers, one call at a time
InitWriters ==
    /\ InitBuilder
    /\ debugBuild \in BOOLEAN
    /\ gatherer \in BOOLEAN
    /\ keyContext = [colorSpace |-> "srgb", alphaType |-> "kPremul"]
    /\ effect = NoEffect
    /\ gin = Null
    /\ gdata = Null

NextWriters ==
    \/ PriorOutputBlock
    \/ SolidColorShaderBlock
    \/ DstReadSampleBlock
    \/ DstReadFetchBlock
    \/ GradientShaderBlocks
    \/ LocalMatrixShaderBlock
    \/ ImageShaderBlock
    \/ YUVImageShaderBlock
    \/ CoordClampShaderBlock
    \/ DitherShaderBlock
    \/ PerlinNoiseShaderBlock
    \/ BlendShaderBlock
    \/ BlendModeBlenderBlock
    \/ CoeffBlenderBlock
    \/ DstColorBlock
    \/ PrimitiveColorBlock
    \/ ColorFilterShaderBlock
    \/ MatrixColorFilterBlock
    \/ ComposeColorFilterBlock
    \/ GaussianColorFilterBlock
    \/ TableColorFilterBlock
    \/ ColorSpaceTransformBlock
    \/ RuntimeEffectBlock
    \/ AddToKeyTableColorFilter
    \/ EndBlock
    \/ LockAsKey

SpecWriters == InitWriters /\ [][NextWriters]_vars

\* construction of a GradientData from the caller's stops
InitGradientData ==
    /\ InitBuilder
    /\ debugBuild \in BOOLEAN
    /\ gatherer \in BOOLEAN
    /\ keyContext = [colorSpace |-> "srgb", alphaType |-> "kPremul"]
    /\ effect = NoEffect
    /\ gin \in ConstructorGradientArgs
    /\ gdata = Null

NextGradientData ==
    \/ ConstructGradientData
    \/ BeginConstructedGradient
    \/ EndBlock

SpecGradientData == InitGradientData /\ [][NextGradientData]_vars

\* threads that convert paints with runtime effects against one dictionary
InitThreads ==
    /\ key = <<>>
    /\ stack = <<>>
    /\ uniforms = <<>>
    /\ resources = <<>>
    /\ log = <<>>
    /\ dict = <<>>
    /\ rtEffectDict = {}
    /\ status = "ok"
    /\ pre = EmptySnapshot
    /\ lastOp = [name |-> "none", arg |-> Null]
    /\ ops = 0
    /\ debugBuild \in BOOLEAN
    /\ gatherer = TRUE
    /\ keyContext = [colorSpace |-> "p3", alphaType |-> "kPremul"]
    /\ effect = NoEffect
    /\ gin = Null
    /\ gdata = Null
    /\ threads = [t \in Threads |-> IdleThread]
    /\ paintDict = <<>>
    /\ combo = Null
    /\ client = Null
    /\ canvas = Null
    /\ scoped = Null

NextThreads ==
    \/ \E t \in Threads : ThreadBeginBlock(t)
    \/ \E t \in Threads : ThreadEndBlock(t)
    \/ \E t \in Threads : ThreadSubmit(t)

SpecThreads == InitThreads /\ [][NextThreads]_vars

InitCombination ==
    /\ key = <<>>
    /\ stack = <<>>
    /\ uniforms = <<>>
    /\ resources = <<>>
    /\ log = <<>>
    /\ dict = <<>>
    /\ rtEffectDict = {}
    /\ status = "ok"
    /\ pre = Null
    /\ lastOp = [name |-> "none", arg |-> Null]
    /\ ops = 0
    /\ debugBuild = FALSE
    /\ gatherer = FALSE
    /\ keyContext = [colorSpace |-> "srgb", alphaType |-> "kPremul"]
    /\ effect = NoEffect
    /\ gin = Null
    /\ gdata = Null
    /\ threads = <<>>
    /\ paintDict = <<>>
    /\ combo = EmptyCombinationBuilder(0)
    /\ client = [handles |-> {}]
    /\ canvas = Null
    /\ scoped = Null

NextCombination ==
    \/ \E d \in ShaderOptionInputs : ClientAddOption(d)
    \/ \E h \in client.handles, i \in ChildIndexInputs, d \in ChildOptionInputs :
            ClientAddChildOption(h, i, d)
    \/ \E h \in client.handles, i \in ChildIndexInputs, d \in ChildOptionInputs,
          outcome \in StaleOutcomes :
            ClientUseStaleHandle(h, i, d, outcome)
    \/ \E bm \in BlendModeInputs : ClientAddBlendMode(bm)
    \/ \E range \in BlendModeRangeInputs : ClientAddBlendModeRange(range)
    \/ \E group \in BlendModeGroup : ClientAddBlendModeGroup(group)
    \/ ClientReset

SpecCombination == InitCombination /\ [][NextCombination]_vars

InitBlenderID ==
    /\ key = <<>>
    /\ stack = <<>>
    /\ uniforms = <<>>
    /\ resources = <<>>
    /\ log = <<>>
    /\ dict = <<>>
    /\ rtEffectDict = {}
    /\ status = "ok"
    /\ pre = Null
    /\ lastOp = [name |-> "none", arg |-> Null]
    /\ ops = 0
    /\ debugBuild = FALSE
    /\ gatherer = FALSE
    /\ keyContext = [colorSpace |-> "srgb", alphaType |-> "kPremul"]
    /\ effect = NoEffect
    /\ gin = Null
    /\ gdata = Null
    /\ threads = <<>>
    /\ paintDict = <<>>
    /\ combo = Null
    /\ client = [ids |-> [x \in BlenderIDVars |-> SkBlenderID_Default]]
    /\ canvas = Null
    /\ scoped = Null

NextBlenderID ==
    \/ \E x \in BlenderIDVars : DefaultConstruct(x)
    \/ \E x \in BlenderIDVars, id \in 0..MaxBlenderID : DictionaryIssues(x, id)
    \/ \E x, y \in BlenderIDVars : CopyConstruct(x, y)
    \/ \E x, y \in BlenderIDVars : AssignBlenderID(x, y)

SpecBlenderID == InitBlenderID /\ [][NextBlenderID]_vars

\* one onRender on a canvas that has its initial save alone or one save more
InitRenderNode ==
    /\ key = <<>>
    /\ stack = <<>>
    /\ uniforms = <<>>
    /\ resources = <<>>
    /\ log = <<>>
    /\ dict = <<>>
    /\ rtEffectDict = {}
    /\ status = "ok"
    /\ pre = Null
    /\ lastOp = [name |-> "none", arg |-> Null]
    /\ ops = 0
    /\ debugBuild = FALSE
    /\ gatherer = FALSE
    /\ keyContext = [colorSpace |-> "srgb", alphaType |-> "kPremul"]
    /\ effect = NoEffect
    /\ gin = Null
    /\ gdata = Null
    /\ threads = <<>>
    /\ paintDict = <<>>
    /\ combo = Null
    /\ client = Null
    /\ canvas \in {[saves |-> <<>>], [saves |-> <<"save">>]}
    /\ scoped = [obj |-> [o \in ScopedObjects |-> Unborn],
                 life |-> [o \in ScopedObjects |-> "unborn"],
                 calls |-> 0, atConstruction |-> 0]

NextRenderNode ==
    \/ \E ctx \in RenderContextInputs : Construct(ctx)
    \/ \E opacity \in OpacityInputs : ModulateOpacity(opacity)
    \/ \E cf \in ColorFilterInputs : ModulateColorFilter(cf)
    \/ \E s \in ShaderInputs : ModulateShader(s[1], s[2])
    \/ \E mode \in RenderBlendModes : ModulateBlendMode(mode)
    \/ \E ctm \in CTMInputs, isolation \in BOOLEAN : SetIsolation(ctm, isolation)
    \/ \E ctm \in CTMInputs : SetFilterIsolation(ctm, "blur")
    \/ \E ctm \in CTMInputs, paint \in PaintInputs : ModulatePaint(ctm, paint)
    \/ MoveConstruct
    \/ \E o \in ScopedObjects : Destroy(o)

SpecRenderNode == InitRenderNode /\ [][NextRenderNode]_vars

\* comparisons of two ShaderData
InitShaderData ==
    /\ key = <<>>
    /\ stack = <<>>
    /\ uniforms = <<>>
    /\ resources = <<>>
    /\ log = <<>>
    /\ dict = <<>>
    /\ rtEffectDict = {}
    /\ status = "ok"
    /\ pre = Null
    /\ lastOp = [name |-> "none", arg |-> Null]
    /\ ops = 0
    /\ debugBuild = FALSE
    /\ gatherer = FALSE
    /\ keyContext = [colorSpace |-> "srgb", alphaType |-> "kPremul"]
    /\ effect = NoEffect
    /\ gin = Null
    /\ gdata = Null
    /\ threads = <<>>
    /\ paintDict = <<>>
    /\ combo = Null
    /\ client \in [{"a", "b"} -> ShaderDataValues]
    /\ canvas = Null
    /\ scoped = Null

NextShaderData == \E x, y \in {"a", "b"} : CompareShaderData(x, y)

SpecShaderData == InitShaderData /\ [][NextShaderData]_vars

-----------------------------------------------------------------------------
(* Reading the record of the last operation *)

CountOps(l, op) == Cardinality({i \in 1..Len(l) : l[i].op = op})

BeginIds(l) ==
    LET b == SelectSeq(l, LAMBDA e : e.op = "begin")
    IN  [i \in 1..Len(b) |-> b[i].arg.id]

\* no prefix of l holds more "end" than "begin" events
NeverBelowEntry(l) ==
    \A k \in 1..Len(l) :
        CountOps(SubSeq(l, 1, k), "end") <= CountOps(SubSeq(l, 1, k), "begin")

\* each "end" event of l closes the newest block still open, starting from st
RECURSIVE ClosesNewest(_, _)
ClosesNewest(st, l) ==
    IF l = <<>> THEN TRUE
    ELSE LET e == Head(l)
         IN  CASE e.op = "begin" -> ClosesNewest(Append(st, e.arg.id), Tail(l))
               [] e.op = "end" -> /\ st # <<>>
                                  /\ e.arg.id = st[Len(st)]
                                  /\ ClosesNewest(SubSeq(st, 1, Len(st) - 1), Tail(l))
               [] OTHER -> ClosesNewest(st, Tail(l))

\* the open blocks after the events of l, starting from st
RECURSIVE StackAfter(_, _)
StackAfter(st, l) ==
    IF l = <<>> THEN st
    ELSE LET e == Head(l)
         IN  CASE e.op = "begin" -> StackAfter(Append(st, e.arg.id), Tail(l))
               [] e.op = "end" /\ st # <<>> ->
                      StackAfter(SubSeq(st, 1, Len(st) - 1), Tail(l))
               [] OTHER -> StackAfter(st, Tail(l))

\* the uniforms and resources the last operation added
AddedUniforms == SubSeq(uniforms, Len(pre.uniforms) + 1, Len(uniforms))
AddedResources == SubSeq(resources, Len(pre.resources) + 1, Len(resources))
KeptData ==
    /\ Len(uniforms) >= Len(pre.uniforms)
    /\ SubSeq(uniforms, 1, Len(pre.uniforms)) = pre.uniforms
    /\ Len(resources) >= Len(pre.resources)
    /\ SubSeq(resources, 1, Len(pre.resources)) = pre.resources

TreeOps == {"AddToKey", "AddDstBlendBlock", "AddPrimitiveBlendBlock", "AddColorBlendBlock"}

-----------------------------------------------------------------------------
(* Properties *)

\* C1: when a conversion of a colour filter or blender tree by AddToKey, or one
\* of AddDstBlendBlock, AddPrimitiveBlendBlock and AddColorBlendBlock, returns,
\* it has begun exactly as many blocks as it has ended and the open blocks are
\* those open at entry; at no point of the call has it ended more blocks than
\* it had begun; fallback paths included.  The only call that does not return
\* stops at an SkASSERT of a debug build that has no gatherer.
C1_Balanced ==
    lastOp.name \in TreeOps =>
        /\ NeverBelowEntry(log)
        /\ status = "ok" =>
               /\ CountOps(log, "begin") = CountOps(log, "end")
               /\ stack = pre.stack
        /\ status # "ok" => (status = "abort" /\ debugBuild /\ ~gatherer)

\* a table filter whose proxy cannot be created, nested in a composition under
\* an open parent block, has been converted
C1_Witness ==
    /\ lastOp.name = "AddToKey"
    /\ lastOp.arg.type = "Compose"
    /\ lastOp.arg.inner.type = "Table"
    /\ lastOp.arg.inner.proxy = "null"
    /\ pre.stack # <<>>
    /\ CountOps(log, "begin") = 3
    /\ status = "ok"

\* C2: the key is the ids in the order beginBlock was called; each endBlock
\* closes the newest block still open; endBlock with no open block is a
\* protocol violation that leaves the key alone; and a key is finished without
\* a violation exactly when no block is open.
C2_KeyBuilderContract ==
    /\ lastOp.name \notin {"none", "lockAsKey"} =>
           /\ key = pre.key \o BeginIds(log)
           /\ ClosesNewest(pre.stack, log)
           /\ stack = StackAfter(pre.stack, log)
    /\ (lastOp.name = "endBlock" /\ pre.stack = <<>>) =>
           (status # "ok" /\ key = pre.key /\ stack = <<>>)
    /\ (lastOp.name = "endBlock" /\ pre.stack # <<>>) =>
           (status = "ok" /\ stack = SubSeq(pre.stack, 1, Len(pre.stack) - 1))
    /\ lastOp.name = "lockAsKey" => (status = "ok" <=> pre.stack = <<>>)

\* a nested tree has been converted under an open parent block: blocks were
\* closed at three depths
C2_Witness ==
    /\ lastOp.name = "AddToKey"
    /\ lastOp.arg.type = "Compose"
    /\ Len(pre.stack) = 1
    /\ CountOps(log, "end") >= 3
    /\ status = "ok"

WriterSnippet ==
    [PriorOutputBlock |-> "kPriorOutput",
     SolidColorShaderBlock |-> "kSolidColorShader",
     DstReadSampleBlock |-> "kDstReadSample",
     DstReadFetchBlock |-> "kDstReadFetch",
     LocalMatrixShaderBlock |-> "kLocalMatrixShader",
     ImageShaderBlock |-> "kImageShader",
     YUVImageShaderBlock |-> "kYUVImageShader",
     CoordClampShaderBlock |-> "kCoordClampShader",
     DitherShaderBlock |-> "kDitherShader",
     PerlinNoiseShaderBlock |-> "kPerlinNoiseShader",
     BlendShaderBlock |-> "kBlendShader",
     BlendModeBlenderBlock |-> "kBlendModeBlender",
     CoeffBlenderBlock |-> "kCoeffBlender",
     DstColorBlock |-> "kDstColor",
     PrimitiveColorBlock |-> "kPrimitiveColor",
     ColorFilterShaderBlock |-> "kColorFilterShader",
     MatrixColorFilterBlock |-> "kMatrixColorFilter",
     ComposeColorFilterBlock |-> "kComposeColorFilter",
     GaussianColorFilterBlock |-> "kGaussianColorFilter",
     TableColorFilterBlock |-> "kTableColorFilter",
     ColorSpaceTransformBlock |-> "kColorSpaceXformColorFilter"]

WriterOps == DOMAIN WriterSnippet \cup {"GradientShaderBlocks", "RuntimeEffectBlock"}

\* the snippet a gradient of the given type and stop count asks for
ExpectedGradientSnippet(type, n) ==
    CASE type = "kLinear" /\ n <= 4 -> ID("kLinearGradientShader4")
      [] type = "kLinear" /\ n > 4 /\ n <= 8 -> ID("kLinearGradientShader8")
      [] type = "kLinear" /\ n > 8 -> ID("kLinearGradientShaderTexture")
      [] type = "kRadial" /\ n <= 4 -> ID("kRadialGradientShader4")
      [] type = "kRadial" /\ n > 4 /\ n <= 8 -> ID("kRadialGradientShader8")
      [] type = "kRadial" /\ n > 8 -> ID("kRadialGradientShaderTexture")
      [] type = "kSweep" /\ n <= 4 -> ID("kSweepGradientShader4")
      [] type = "kSweep" /\ n > 4 /\ n <= 8 -> ID("kSweepGradientShader8")
      [] type = "kSweep" /\ n > 8 -> ID("kSweepGradientShaderTexture")
      [] type = "kConical" /\ n <= 4 -> ID("kConicalGradientShader4")
      [] type = "kConical" /\ n > 4 /\ n <= 8 -> ID("kConicalGradientShader8")
      [] type = "kConical" /\ n > 8 -> ID("kConicalGradientShaderTexture")

\* the snippet the block writer of the last operation was asked for; a gradient
\* of no type asks for none
HasRequestedSnippet ==
    /\ lastOp.name \in WriterOps
    /\ lastOp.name = "GradientShaderBlocks" => lastOp.arg.fType # "kNone"

RequestedSnippet ==
    CASE lastOp.name = "GradientShaderBlocks" ->
             ExpectedGradientSnippet(lastOp.arg.fType, lastOp.arg.fNumStops)
      [] lastOp.name = "RuntimeEffectBlock" ->
             kBuiltInCodeSnippetIDCount
                 + (CHOOSE i \in 1..Len(dict) : dict[i] = lastOp.arg.fEffect)
      [] OTHER -> ID(WriterSnippet[lastOp.name])

\* C3: without a gatherer a BeginBlock writes no uniform and adds no resource,
\* takes no fallback path, and begins the block of the snippet it was asked
\* for; in a release build it always returns.
C3_KeyOnly ==
    (lastOp.name \in WriterOps /\ ~gatherer) =>
        /\ uniforms = pre.uniforms
        /\ resources = pre.resources
        /\ CountOps(log, "write") = 0
        /\ CountOps(log, "add") = 0
        /\ ~debugBuild => status = "ok"
        /\ (status = "ok" /\ HasRequestedSnippet) =>
               /\ log = <<Ev("begin", [id |-> RequestedSnippet])>>
               /\ key = Append(pre.key, RequestedSnippet)

\* without a gatherer the table filter writer was handed data with no proxy and
\* began the table block
C3_Witness ==
    /\ ~gatherer
    /\ lastOp.name = "TableColorFilterBlock"
    /\ lastOp.arg.fTextureProxy = "null"
    /\ status = "ok"
    /\ key = <<ID("kTableColorFilter")>>

\* C4: AddToKey on a null blender or a null colour filter returns and emits
\* nothing: no block is begun or ended, no uniform written, no resource added,
\* and key, open blocks, gathered data and dictionary are as at entry.
C4_NullEffect ==
    (lastOp.name = "AddToKey" /\ lastOp.arg.type = "null") =>
        /\ status = "ok"
        /\ log = <<>>
        /\ key = pre.key
        /\ stack = pre.stack
        /\ uniforms = pre.uniforms
        /\ resources = pre.resources
        /\ dict = pre.dict

\* a null blender was converted under an open parent block
C4_Witness ==
    /\ lastOp.name = "AddToKey"
    /\ lastOp.arg.type = "null"
    /\ effect.kind = "blender"
    /\ pre.key # <<>>
    /\ pre.stack # <<>>

NoTexture ==
    CASE lastOp.name = "ImageShaderBlock" ->
             ~IsNull(lastOp.arg) /\ lastOp.arg.fTextureProxy = "null"
      [] lastOp.name = "YUVImageShaderBlock" ->
             ~IsNull(lastOp.arg) /\ \E i \in 1..4 : lastOp.arg.fTextureProxies[i] = "null"
      [] OTHER -> FALSE

\* C6: with a gatherer, an image shader whose texture proxy is null, and a YUV
\* image shader with any of its four plane proxies null, returns having begun a
\* solid-colour block whose only uniform is the error colour (1, 0, 0, 1): no
\* image block, no image uniform, no resource binding.
C6_ErrorColorFallback ==
    (gatherer /\ NoTexture) =>
        /\ status = "ok"
        /\ key = Append(pre.key, ID("kSolidColorShader"))
        /\ BeginIds(log) = <<ID("kSolidColorShader")>>
        /\ KeptData
        /\ AddedUniforms = <<W("write", "SkPMColor4f", 1, <<1, 0, 0, 1>>)>>
        /\ CountOps(log, "write") = 1
        /\ resources = pre.resources
        /\ CountOps(log, "add") = 0

\* a YUV image whose first plane is present and whose last plane is missing
\* took the fallback
C6_Witness ==
    /\ gatherer
    /\ lastOp.name = "YUVImageShaderBlock"
    /\ ~IsNull(lastOp.arg)
    /\ lastOp.arg.fTextureProxies[1] # "null"
    /\ lastOp.arg.fTextureProxies[4] = "null"
    /\ status = "ok"
    /\ key = <<ID("kSolidColorShader")>>

\* the last operation was handed a table without proxy, or failed to create
\* the proxy it asked for
TableProxyAbsent ==
    \/ lastOp.name = "TableColorFilterBlock" /\ lastOp.arg.fTextureProxy = "null"
    \/ lastOp.name = "AddToKey" /\ lastOp.arg.type = "Table" /\ lastOp.arg.proxy = "null"

DitherProxyAbsent ==
    lastOp.name = "DitherShaderBlock" /\ gatherer /\ lastOp.arg.proxy = "null"

PriorOutputInstead ==
    /\ BeginIds(log) = <<ID("kPriorOutput")>>
    /\ key = Append(pre.key, ID("kPriorOutput"))
    /\ uniforms = pre.uniforms
    /\ resources = pre.resources
    /\ CountOps(log, "write") = 0
    /\ CountOps(log, "add") = 0

\* C7 as stated: whenever the proxy of a table colour filter or of the dither
\* pattern is absent or cannot be created, the writer emits a PriorOutput block
\* and no uniform or resource of the original block.
C7_AsStated ==
    ((TableProxyAbsent \/ DitherProxyAbsent) /\ status = "ok") => PriorOutputInstead

\* C7: AddToKey on a table colour filter whose proxy cannot be created emits a
\* PriorOutput block, gatherer or not; the BeginBlock of the table colour filter
\* and of the dither shader do so when there is a gatherer; none of them then
\* writes a uniform or adds a resource.  Without a gatherer the table writer
\* begins the table block although its data holds no proxy.
C7_PriorOutputFallback ==
    /\ ((TableProxyAbsent \/ DitherProxyAbsent) /\ status = "ok"
            /\ (lastOp.name = "TableColorFilterBlock" => gatherer))
           => PriorOutputInstead
    /\ (TableProxyAbsent /\ lastOp.name = "TableColorFilterBlock" /\ ~gatherer) =>
           /\ status = "ok"
           /\ key = Append(pre.key, ID("kTableColorFilter"))
           /\ resources = pre.resources

\* with a gatherer the table writer was handed data without proxy and fell back
C7_Witness ==
    /\ gatherer
    /\ lastOp.name = "TableColorFilterBlock"
    /\ lastOp.arg.fTextureProxy = "null"
    /\ status = "ok"
    /\ key = <<ID("kPriorOutput")>>
    /\ resources = <<>>

\* a gradient of one of the four types has been written and the call returned
GradientWritten ==
    /\ lastOp.name = "GradientShaderBlocks"
    /\ lastOp.arg.fType # "kNone"
    /\ status = "ok"

\* C8: for each of the four gradient types the snippet begun is the 4-stop one
\* for up to 4 stops, the 8-stop one for 5 to 8 stops and the texture one from
\* 9 stops on.  With a gatherer the texture case adds exactly one resource
\* binding, that of the stops proxy, which a debug build requires to be
\* non-null; every other case adds none.
C8_GradientThresholds ==
    GradientWritten =>
        LET g == lastOp.arg
        IN  /\ key = Append(pre.key, ExpectedGradientSnippet(g.fType, g.fNumStops))
            /\ KeptData
            /\ IF gatherer /\ g.fNumStops > 8
               THEN /\ AddedResources =
                           <<R("kNearest", <<"kClamp", "kClamp">>, g.fColorsAndOffsetsProxy)>>
                    /\ debugBuild => g.fColorsAndOffsetsProxy # "null"
               ELSE AddedResources = <<>>

\* a sweep gradient of 9 stops was written with a gatherer
C8_Witness ==
    /\ GradientWritten
    /\ gatherer
    /\ lastOp.arg.fType = "kSweep"
    /\ lastOp.arg.fNumStops = 9
    /\ key = <<ID("kSweepGradientShaderTexture")>>
    /\ Len(resources) = 1

FourStopSnippets ==
    { ID("kLinearGradientShader4"), ID("kRadialGradientShader4"),
      ID("kSweepGradientShader4"), ID("kConicalGradientShader4") }

EightStopSnippets ==
    { ID("kLinearGradientShader8"), ID("kRadialGradientShader8"),
      ID("kSweepGradientShader8"), ID("kConicalGradientShader8") }

TextureSnippets ==
    { ID("kLinearGradientShaderTexture"), ID("kRadialGradientShaderTexture"),
      ID("kSweepGradientShaderTexture"), ID("kConicalGradientShaderTexture") }

CountWrites(us, fn, ty) ==
    Cardinality({i \in 1..Len(us) : us[i].fn = fn /\ us[i].ty = ty})

\* C9: the uniforms written with a gradient block are those of the snippet
\* begun: a 4-stop snippet gets a 4-colour array and one float4 of offsets, an
\* 8-stop snippet an 8-colour array and two float4, both without a stop count;
\* a texture snippet gets no colour or offset data and the stop count ahead of
\* tile mode, colour space and premul flag.
C9_PackingMatchesSnippet ==
    (GradientWritten /\ gatherer) =>
        LET g == lastOp.arg
            id == key[Len(key)]
            us == AddedUniforms
            ints == SelectSeq(us, LAMBDA w : w.ty = "int")
        IN  /\ KeptData
            /\ id \in FourStopSnippets \cup EightStopSnippets \cup TextureSnippets
            /\ id \in FourStopSnippets =>
                   /\ us[1] = W("writeArray", "SkPMColor4f", 4, SubSeq(g.fColors, 1, 4))
                   /\ us[2] = W("write", "kFloat4", 1, SubSeq(g.fOffsets, 1, 4))
                   /\ CountWrites(us, "writeArray", "SkPMColor4f") = 1
                   /\ CountWrites(us, "write", "kFloat4") = 1
                   /\ CountWrites(us, "writeArray", "kFloat4") = 0
                   /\ Len(ints) = 3
            /\ id \in EightStopSnippets =>
                   /\ us[1] = W("writeArray", "SkPMColor4f", 8, SubSeq(g.fColors, 1, 8))
                   /\ us[2] = W("writeArray", "kFloat4", 2, SubSeq(g.fOffsets, 1, 8))
                   /\ CountWrites(us, "writeArray", "SkPMColor4f") = 1
                   /\ CountWrites(us, "writeArray", "kFloat4") = 1
                   /\ CountWrites(us, "write", "kFloat4") = 0
                   /\ Len(ints) = 3
            /\ id \in TextureSnippets =>
                   /\ \A i \in 1..Len(us) :
                          us[i].fn # "writeArray" /\ us[i].ty \notin {"SkPMColor4f", "kFloat4"}
                   /\ Len(ints) = 4
                   /\ ints[1] = W("write", "int", 1, <<g.fNumStops>>)
            /\ SubSeq(ints, Len(ints) - 2, Len(ints)) =
                   << W("write", "int", 1, <<SkTileModeInt(g.fTM)>>),
                      W("write", "int", 1, <<g.fInterpolation.fColorSpace>>),
                      W("write", "int", 1, <<BoolInt(g.fInterpolation.fInPremul)>>) >>

\* a conical gradient of exactly 4 stops was written with a gatherer
C9_Witness ==
    /\ GradientWritten
    /\ gatherer
    /\ lastOp.arg.fType = "kConical"
    /\ lastOp.arg.fNumStops = 4
    /\ key[Len(key)] \in FourStopSnippets
    /\ Len(uniforms) = 9

\* C10: a GradientData constructed from 1 to 8 stops holds the caller's colours,
\* and the caller's offsets when given, in its first numStops slots, and in
\* every later slot up to the eighth a copy of the last stop's colour and
\* offset.
C10_Padding ==
    (~IsNull(gdata) /\ gin.numStops <= 8) =>
        LET n == gin.numStops
        IN  /\ gdata.fNumStops = n
            /\ Len(gdata.fColors) = 8
            /\ Len(gdata.fOffsets) = 8
            /\ \A i \in 1..n :
                   /\ gdata.fColors[i] = gin.colors[i]
                   /\ gin.hasOffsets => gdata.fOffsets[i] = gin.offsets[i]
            /\ \A i \in (n + 1)..8 :
                   /\ gdata.fColors[i] = gdata.fColors[n]
                   /\ gdata.fOffsets[i] = gdata.fOffsets[n]

\* a gradient of 5 stops with offsets was constructed: three trailing slots
\* repeat the fifth stop
C10_Witness ==
    /\ ~IsNull(gdata)
    /\ gin.numStops = 5
    /\ gin.hasOffsets
    /\ gdata.fColors[5] # gdata.fColors[4]
    /\ \A i \in 6..8 : gdata.fColors[i] = gin.colors[5] /\ gdata.fOffsets[i] = gin.offsets[5]

-----------------------------------------------------------------------------
(* The block tree that the begin / end events of an operation describe *)

\* the begin and end events of the last operation
Blocks == SelectSeq(log, LAMBDA e : e.op \in {"begin", "end"})

\* blocks open, of those the operation began, ahead of event k
Depth(b, k) ==
    CountOps(SubSeq(b, 1, k - 1), "begin") - CountOps(SubSeq(b, 1, k - 1), "end")

\* the block begun by event k is closed by one of the events
IsClosed(b, k) == \E j \in (k + 1)..Len(b) : Depth(b, j + 1) = Depth(b, k)

\* ... the first that brings the depth back
Close(b, k) ==
    CHOOSE j \in (k + 1)..Len(b) :
        /\ Depth(b, j + 1) = Depth(b, k)
        /\ \A m \in (k + 1)..(j - 1) : Depth(b, m + 1) > Depth(b, k)

\* the events that begin the direct children of the block begun by event k
ChildEvents(b, k) ==
    SelectSeq([i \in 1..Len(b) |-> i],
              LAMBDA j : /\ j > k
                         /\ j < Close(b, k)
                         /\ b[j].op = "begin"
                         /\ Depth(b, j) = Depth(b, k) + 1)

\* the ids of the direct children of the block begun by event k
Children(b, k) ==
    LET c == ChildEvents(b, k) IN [i \in 1..Len(c) |-> b[c[i]].arg.id]

\* the operation emitted one block of snippet id and nothing beside it
OneBlock(b, id) ==
    /\ b # <<>>
    /\ b[1] = Ev("begin", [id |-> id])
    /\ IsClosed(b, 1)
    /\ Close(b, 1) = Len(b)

BlenderSnippets ==
    {ID("kBlendModeBlender"), ID("kCoeffBlender")}
    \cup {kBuiltInCodeSnippetIDCount + i : i \in 1..Len(dict)}

\* C11 as stated: AddDstBlendBlock and AddPrimitiveBlendBlock emit, for every
\* blender and for a null blender too, one BlendShader block whose direct
\* children are PriorOutput, then DstColor (PrimitiveColor), then one blender
\* block.
C11_AsStated ==
    (lastOp.name \in {"AddDstBlendBlock", "AddPrimitiveBlendBlock"} /\ status = "ok") =>
        /\ OneBlock(Blocks, ID("kBlendShader"))
        /\ Len(Children(Blocks, 1)) = 3
        /\ Children(Blocks, 1)[1] = ID("kPriorOutput")
        /\ Children(Blocks, 1)[2] =
               IF lastOp.name = "AddDstBlendBlock" THEN ID("kDstColor")
               ELSE ID("kPrimitiveColor")
        /\ Children(Blocks, 1)[3] \in BlenderSnippets

\* C12 as stated: the direct children of the BlendShader block that
\* AddColorBlendBlock emits are the prior output, the solid colour and one
\* blender block, in this order.
C12_AsStated ==
    (lastOp.name = "AddColorBlendBlock" /\ status = "ok") =>
        /\ OneBlock(Blocks, ID("kBlendShader"))
        /\ Children(Blocks, 1) =
               <<ID("kPriorOutput"), ID("kSolidColorShader"), ID("kBlendModeBlender")>>

\* C12: AddColorBlendBlock returns having emitted one BlendShader block with
\* exactly three direct children, none of which has children: the solid colour
\* (the blend's source), then the prior output (its destination), then the
\* BlendModeBlender block.
C12_ColorBlendShape ==
    lastOp.name = "AddColorBlendBlock" =>
        /\ status = "ok"
        /\ OneBlock(Blocks, ID("kBlendShader"))
        /\ Children(Blocks, 1) =
               <<ID("kSolidColorShader"), ID("kPriorOutput"), ID("kBlendModeBlender")>>
        /\ Len(Blocks) = 8

\* a colour blend was emitted under an open parent block, with a gatherer
C12_Witness ==
    /\ lastOp.name = "AddColorBlendBlock"
    /\ lastOp.arg.bm = "kScreen"
    /\ gatherer
    /\ pre.stack # <<>>
    /\ status = "ok"
    /\ Len(key) = 5

\* the snippet of the block that stands for a colour filter in the key
RootSnippet(f) ==
    CASE f.type = "Noop" -> ID("kPriorOutput")
      [] f.type = "BlendMode" -> ID("kBlendShader")
      [] f.type = "ColorSpaceXform" -> ID("kColorSpaceXformColorFilter")
      [] f.type = "Compose" -> ID("kComposeColorFilter")
      [] f.type = "Gaussian" -> ID("kGaussianColorFilter")
      [] f.type = "Matrix" -> ID("kMatrixColorFilter")
      [] f.type = "Runtime" ->
             kBuiltInCodeSnippetIDCount + (CHOOSE i \in 1..Len(dict) : dict[i] = f.effect)
      [] f.type = "Table" ->
             IF f.proxy = "null" THEN ID("kPriorOutput") ELSE ID("kTableColorFilter")
      [] f.type = "WorkingFormat" -> ID("kComposeColorFilter")

ComposeConverted ==
    lastOp.name = "AddToKey" /\ lastOp.arg.type = "Compose" /\ status = "ok"

\* C13 as stated: for every compose colour filter, whatever its inner and outer
\* filters, absent ones and ones that fall back included, AddToKey emits one
\* ComposeColorFilter block with exactly two direct children: the block of the
\* inner filter, then the block of the outer filter.
C13_AsStated ==
    ComposeConverted =>
        /\ OneBlock(Blocks, ID("kComposeColorFilter"))
        /\ Len(Children(Blocks, 1)) = 2
        /\ lastOp.arg.inner.type # "null" =>
               Children(Blocks, 1)[1] = RootSnippet(lastOp.arg.inner)
        /\ lastOp.arg.outer.type # "null" =>
               Children(Blocks, 1)[2] = RootSnippet(lastOp.arg.outer)

WorkingFormatConverted ==
    lastOp.name = "AddToKey" /\ lastOp.arg.type = "WorkingFormat" /\ status = "ok"

\* the uniforms of a colour-space transform block for the given transform
XformUniforms(src, srcAT, dst, dstAT) ==
    add_color_space_uniforms(
        [S EXCEPT !.gatherer = TRUE, !.status = "ok", !.uniforms = <<>>],
        SkColorSpaceXformSteps(src, srcAT, dst, dstAT)).uniforms

\* the destination colour space of the conversion: that of the key context, or
\* sRGB when it has none
DstColorSpace == IF keyContext.colorSpace = "null" THEN "srgb" ELSE keyContext.colorSpace

\* the last sz entries of seq
Last(seq, sz) == SubSeq(seq, Len(seq) - sz + 1, Len(seq))

Swapped(tuple) == <<tuple[3], tuple[4], tuple[1], tuple[2]>>

TupleUniforms(tuple) == XformUniforms(tuple[1], tuple[2], tuple[3], tuple[4])

\* C15: the two transforms of the working-format writer are built from
\* exchanged tuples: the first from (dst space, dst alpha type, working space,
\* working alpha type), the second from the same tuple with source and
\* destination exchanged, where the dst space is the key context's colour
\* space, or sRGB when that is null.  Around a no-op child nothing else is
\* written.
C15_SwappedTransforms ==
    (WorkingFormatConverted /\ gatherer) =>
        LET f == lastOp.arg
            dstCS == IF keyContext.colorSpace = "null" THEN "srgb"
                     ELSE keyContext.colorSpace
            w == workingFormat(f, dstCS)
            first == <<dstCS, keyContext.alphaType, w.cs, w.at>>
        IN  /\ SubSeq(AddedUniforms, 1, Len(TupleUniforms(first))) = TupleUniforms(first)
            /\ Last(AddedUniforms, Len(TupleUniforms(Swapped(first))))
                   = TupleUniforms(Swapped(first))
            /\ f.child.type = "Noop" =>
                   AddedUniforms = TupleUniforms(first) \o TupleUniforms(Swapped(first))

\* a working-format filter around a no-op child was converted with a gatherer
\* and a key context without colour space; forth and back differ
C15_Witness ==
    /\ WorkingFormatConverted
    /\ gatherer
    /\ keyContext.colorSpace = "null"
    /\ lastOp.arg.child.type = "Noop"
    /\ Len(AddedUniforms) = 12
    /\ AddedUniforms[1] # AddedUniforms[7]

\* this step converts again, with the same gatherer and key context, the tree
\* that the operation before it converted
ConvertsAgain ==
    /\ status = "ok"
    /\ lastOp.name \in TreeOps
    /\ lastOp' = lastOp
    /\ ops' = ops + 1

Shape(w) == <<w.fn, w.ty, w.n>>

Shapes(ws) == [i \in 1..Len(ws) |-> Shape(ws[i])]

\* flags mask; linearize: type and 7 coefficients; gamut matrix; encode: type
\* and 7 coefficients
ColorSpaceUniformShapes ==
    << <<"write", "int", 1>>,
       <<"write", "int", 1>>, <<"writeHalfArray", "float", 7>>,
       <<"writeHalf", "SkMatrix", 1>>,
       <<"write", "int", 1>>, <<"writeHalfArray", "float", 7>> >>

\* the last operation wrote the uniforms of the transform steps it was handed
WroteColorSpaceUniforms ==
    /\ gatherer
    /\ status = "ok"
    /\ \/ lastOp.name = "ImageShaderBlock" /\ ~IsNull(lastOp.arg) /\ ~NoTexture
       \/ lastOp.name = "YUVImageShaderBlock" /\ ~IsNull(lastOp.arg) /\ ~NoTexture
       \/ lastOp.name = "ColorSpaceTransformBlock" /\ ~IsNull(lastOp.arg)

\* C17: add_color_space_uniforms makes the same six writes, in the same order
\* and of the same types and counts, for every combination of the linearize,
\* gamut_transform and encode flags: the flags mask, a transfer-function type
\* and 7 half coefficients, a half 3x3 matrix, a transfer-function type and 7
\* half coefficients.
C17_FixedColorSpaceLayout ==
    WroteColorSpaceUniforms =>
        /\ KeptData
        /\ Len(AddedUniforms) >= 6
        /\ Shapes(Last(AddedUniforms, 6)) = ColorSpaceUniformShapes
        /\ Last(AddedUniforms, 6)[1].val = <<FlagsMask(lastOp.arg.fSteps.flags)>>
        /\ lastOp.name = "ColorSpaceTransformBlock" => Len(AddedUniforms) = 6
        /\ lastOp.name = "ImageShaderBlock" => Len(AddedUniforms) = 14

\* an image was written whose steps have the gamut transform alone active
C17_Witness ==
    /\ WroteColorSpaceUniforms
    /\ lastOp.name = "ImageShaderBlock"
    /\ ~lastOp.arg.fSteps.flags.linearize
    /\ lastOp.arg.fSteps.flags.gamut_transform
    /\ ~lastOp.arg.fSteps.flags.encode
    /\ Len(uniforms) = 14

\* the six writes of add_color_space_uniforms in the last operation
ColorSpaceWrites == Last(AddedUniforms, 6)

LastSteps == lastOp.arg.fSteps

\* the placeholder of a transfer function: type 0 and seven zero coefficients
IsEmptyXferFn(ty, coeffs) ==
    /\ ty.val = <<0>>
    /\ coeffs.val = <<0, 0, 0, 0, 0, 0, 0>>

\* C18 as stated: the placeholder of every disabled step is all zero, the
\* gamut matrix included.
C18_AsStated ==
    WroteColorSpaceUniforms =>
        /\ ~LastSteps.flags.linearize =>
               IsEmptyXferFn(ColorSpaceWrites[2], ColorSpaceWrites[3])
        /\ ~LastSteps.flags.gamut_transform =>
               ColorSpaceWrites[4].val = <<0, 0, 0, 0, 0, 0, 0, 0, 0>>
        /\ ~LastSteps.flags.encode =>
               IsEmptyXferFn(ColorSpaceWrites[5], ColorSpaceWrites[6])

\* C18: a disabled linearize or encode step is written as transfer-function
\* type 0 with seven zero coefficients; a disabled gamut transform is written as
\* the identity matrix, not as zeros. An enabled step is written with the
\* values of the steps.
C18_Placeholders ==
    WroteColorSpaceUniforms =>
        /\ IF LastSteps.flags.linearize
           THEN /\ ColorSpaceWrites[2].val = <<LastSteps.srcTF.type>>
                /\ ColorSpaceWrites[3].val = LastSteps.srcTF.coeffs
           ELSE IsEmptyXferFn(ColorSpaceWrites[2], ColorSpaceWrites[3])
        /\ IF LastSteps.flags.gamut_transform
           THEN ColorSpaceWrites[4].val = LastSteps.src_to_dst_matrix
           ELSE ColorSpaceWrites[4].val = <<1, 0, 0, 0, 1, 0, 0, 0, 1>>
        /\ IF LastSteps.flags.encode
           THEN /\ ColorSpaceWrites[5].val = <<LastSteps.dstTFInv.type>>
                /\ ColorSpaceWrites[6].val = LastSteps.dstTFInv.coeffs
           ELSE IsEmptyXferFn(ColorSpaceWrites[5], ColorSpaceWrites[6])

\* steps that hold a transfer function and a gamut matrix were written with
\* linearize and the gamut transform disabled and encode enabled
C18_Witness ==
    /\ WroteColorSpaceUniforms
    /\ ~LastSteps.flags.linearize
    /\ ~LastSteps.flags.gamut_transform
    /\ LastSteps.flags.encode
    /\ LastSteps.srcTF.type # 0
    /\ LastSteps.src_to_dst_matrix # <<1, 0, 0, 0, 1, 0, 0, 0, 1>>
    /\ ColorSpaceWrites[4].val = <<1, 0, 0, 0, 1, 0, 0, 0, 1>>

\* a builder and a gatherer nothing was written to
Fresh(debug) ==
    [debug |-> debug, gatherer |-> TRUE,
     ctx |-> [colorSpace |-> "srgb", alphaType |-> "kPremul"],
     key |-> <<>>, stack |-> <<>>, uniforms |-> <<>>, resources |-> <<>>,
     log |-> <<>>, dict |-> <<>>, rtEffectDict |-> {}, status |-> "ok"]

\* every writer of a built-in snippet applied to every value of its data; a
\* gradient of no type is left out, its path activates no validator
BuiltInRuns(debug) ==
    LET B == Fresh(debug)
    IN  {PriorOutputBlock_BeginBlock(B), DstReadFetchBlock_BeginBlock(B),
         DstReadSampleBlock_BeginBlock(B, "dst", <<0, 0, 1, 1>>),
         BlendShaderBlock_BeginBlock(B), DstColorBlock_BeginBlock(B),
         PrimitiveColorBlock_BeginBlock(B), ColorFilterShaderBlock_BeginBlock(B),
         ComposeColorFilterBlock_BeginBlock(B), GaussianColorFilterBlock_BeginBlock(B)}
        \cup {SolidColorShaderBlock_BeginBlock(B, c) : c \in Colors}
        \cup {GradientShaderBlocks_BeginBlock(B, MakeGradientData(a)) :
                a \in {g \in WriterGradientArgs : g.type # "kNone"}}
        \cup {LocalMatrixShaderBlock_BeginBlock(B, d) : d \in LMShaderDataInputs}
        \cup {ImageShaderBlock_BeginBlock(B, d) : d \in ImageDataInputs}
        \cup {YUVImageShaderBlock_BeginBlock(B, d) : d \in YUVImageDataInputs}
        \cup {CoordClampShaderBlock_BeginBlock(B, d) : d \in CoordClampDataInputs}
        \cup {DitherShaderBlock_BeginBlock(B, d, proxy) :
                d \in DitherDataInputs, proxy \in {"null", "ditherLUT"}}
        \cup {PerlinNoiseShaderBlock_BeginBlock(B, d) : d \in PerlinNoiseDataInputs}
        \cup {BlendModeBlenderBlock_BeginBlock(B, m) : m \in BlendModes}
        \cup {CoeffBlenderBlock_BeginBlock(B, GetPorterDuffBlendConstants(m)) :
                m \in {"kClear", "kSrcOver"}}
        \cup {MatrixColorFilterBlock_BeginBlock(B, d) : d \in MatrixColorFilterDataInputs}
        \cup {TableColorFilterBlock_BeginBlock(B, d) : d \in TableColorFilterDataInputs}
        \cup {ColorSpaceTransformBlock_BeginBlock(B, d) : d \in ColorSpaceTransformDataInputs}

\* the snippet begun and the layout of the writes made for it, for every run
\* that returned
WrittenLayouts(debug) ==
    {[snippet |-> r.key[Len(r.key)], shapes |-> Shapes(r.uniforms)] :
        r \in {x \in BuiltInRuns(debug) : x.status = "ok" /\ x.key # <<>>}}

ReleaseLayouts == WrittenLayouts(FALSE)
DebugLayouts == WrittenLayouts(TRUE)

\* a writer of a built-in snippet wrote to a gatherer and began its block
WroteBuiltIn ==
    /\ gatherer
    /\ status = "ok"
    /\ lastOp.name \in WriterOps \ {"RuntimeEffectBlock"}
    /\ lastOp.name = "GradientShaderBlocks" => lastOp.arg.fType # "kNone"

BindingCount(id) ==
    CASE id = ID("kImageShader") -> 1
      [] id = ID("kYUVImageShader") -> 4
      [] id = ID("kPerlinNoiseShader") -> 2
      [] id = ID("kDitherShader") -> 1
      [] id = ID("kTableColorFilter") -> 1
      [] id = ID("kDstReadSample") -> 1
      [] id \in TextureSnippets -> 1
      [] OTHER -> 0

\* a writer of a built-in snippet was handed a gatherer and every texture it
\* asks for
WroteWithAllResources ==
    /\ gatherer
    /\ status = "ok"
    /\ lastOp.name \in WriterOps \ {"RuntimeEffectBlock"}
    /\ ~NoTexture
    /\ ~TableProxyAbsent
    /\ ~DitherProxyAbsent
    /\ lastOp.name = "GradientShaderBlocks" => lastOp.arg.fColorsAndOffsetsProxy # "null"

\* C20 as stated: with a gatherer and all resources present the bindings added
\* are as many as the snippet begun expects: image 1, YUV image the 4 planes in
\* order with the same sampling and tile modes, perlin noise the permutations
\* then the noise, dither, table, dst-read-sample and texture gradient 1,
\* every other block 0.
C20_AsStated ==
    WroteWithAllResources =>
        /\ KeptData
        /\ key # <<>>
        /\ Len(AddedResources) = BindingCount(key[Len(key)])
        /\ \A i \in 1..Len(AddedResources) : AddedResources[i].proxy # "null"
        /\ lastOp.name = "YUVImageShaderBlock" =>
               AddedResources = [i \in 1..4 |->
                                    R(SamplingName(lastOp.arg.fSampling),
                                      lastOp.arg.fTileModes,
                                      lastOp.arg.fTextureProxies[i])]
        /\ lastOp.name = "PerlinNoiseShaderBlock" =>
               /\ AddedResources[1].proxy = lastOp.arg.fPermutationsProxy
               /\ AddedResources[2].proxy = lastOp.arg.fNoiseProxy

\* AddToKey converted a runtime blender or a runtime colour filter
RuntimeConverted ==
    lastOp.name = "AddToKey" /\ lastOp.arg.type = "Runtime" /\ status = "ok"

\* the position in l of its first beginBlock
FirstBegin(l) ==
    CHOOSE i \in 1..Len(l) : l[i].op = "begin" /\ \A j \in 1..(i - 1) : l[j].op # "begin"

\* the writes made ahead of the first beginBlock of l
WritesAhead(l) ==
    LET w == SelectSeq(SubSeq(l, 1, FirstBegin(l) - 1), LAMBDA e : e.op = "write")
    IN  [i \in 1..Len(w) |-> w[i].arg]

\* the snippet id the dictionary holds for effect e
DictionaryID(e) ==
    kBuiltInCodeSnippetIDCount + (CHOOSE i \in 1..Len(dict) : dict[i] = e)

\* C21: for a runtime blender or colour filter AddToKey begins one block with
\* the snippet id the dictionary holds for the effect, an id an earlier
\* conversion of the effect keeps; with a gatherer it writes, ahead of the
\* begin, one uniform per declared uniform, in declaration order, each read at
\* its declared offset of the transformed data; the blocks of the children
\* lie inside the block, in order, and the block is ended last.
C21_RuntimeEffectBlock ==
    RuntimeConverted =>
        LET f == lastOp.arg
            decls == RuntimeEffects[f.effect].uniforms
            data == TransformUniforms(decls, f.uniforms, keyContext.colorSpace)
        IN  /\ InDict(dict, f.effect)
            /\ Cardinality({i \in 1..Len(dict) : dict[i] = f.effect}) = 1
            /\ SubSeq(dict, 1, Len(pre.dict)) = pre.dict
            /\ InDict(pre.dict, f.effect) => dict = pre.dict
            /\ <<DictionaryID(f.effect), f.effect>> \in rtEffectDict
            /\ OneBlock(Blocks, DictionaryID(f.effect))
            /\ Len(Children(Blocks, 1)) = Len(f.children)
            /\ \A i \in 1..Len(f.children) :
                   Children(Blocks, 1)[i] = RootSnippet(f.children[i])
            /\ log[Len(log)] = Ev("end", [id |-> DictionaryID(f.effect)])
            /\ stack = pre.stack
            /\ IF gatherer
               THEN WritesAhead(log) =
                        [i \in 1..Len(decls) |->
                            W("write", decls[i].type, 1,
                              SubSeq(data, decls[i].offset + 1,
                                     decls[i].offset + decls[i].size))]
               ELSE CountOps(log, "write") = 0

\* with a gatherer and a destination colour space a runtime effect of two
\* uniforms, the second a colour, was converted
C21_Witness ==
    /\ RuntimeConverted
    /\ gatherer
    /\ keyContext.colorSpace = "p3"
    /\ lastOp.arg.effect = "rtA"
    /\ Len(WritesAhead(log)) = 2
    /\ WritesAhead(log)[2].val # SubSeq(lastOp.arg.uniforms, 2, 5)
    /\ Len(Blocks) = 2

\* every identity a thread was handed by the shared dictionary
Observed == UNION {threads[t].seen : t \in DOMAIN threads}

NoDuplicates(d) == \A i, j \in 1..Len(d) : d[i] = d[j] => i = j

\* C22: whatever the interleaving of the threads, two requests for the same
\* runtime effect are answered with the same snippet id and two submissions of
\* the same key with the same paint id, the answer is the entry's place in the
\* dictionary, and the dictionary holds no content twice.
C22_OneIdentityPerContent ==
    /\ \A a, b \in Observed :
           (a.kind = b.kind /\ a.content = b.content) => a.id = b.id
    /\ \A a \in Observed :
           IF a.kind = "snippet"
           THEN /\ a.id - kBuiltInCodeSnippetIDCount \in 1..Len(dict)
                /\ dict[a.id - kBuiltInCodeSnippetIDCount] = a.content
           ELSE /\ a.id \in 1..Len(paintDict)
                /\ paintDict[a.id] = a.content
    /\ NoDuplicates(dict)
    /\ NoDuplicates(paintDict)

\* two threads are in the middle of converting paints with the same runtime
\* effect, each has its snippet id, and one of them submitted the same key
\* before as the other
C22_Witness ==
    /\ DOMAIN threads = Threads
    /\ \E t, u \in Threads :
           /\ t # u
           /\ threads[t].pc = "begun"
           /\ threads[u].pc = "begun"
           /\ threads[t].paint = threads[u].paint
           /\ threads[t].paints = 1
           /\ threads[u].paints = 1
           /\ \E a \in threads[t].seen, b \in threads[u].seen :
                  a.kind = "paint" /\ b.kind = "paint" /\ a.content = b.content
    /\ Len(dict) = 2

\* GradientShaderBlocks::BeginBlock was handed a gradient of no type, which
\* its switch has no handler for
NoHandlerGradient ==
    lastOp.name = "GradientShaderBlocks" /\ lastOp.arg.fType = "kNone"

\* C23 as stated: a dispatch that reaches a tag with no handler is fatal and
\* emits no block; for the gradient-type dispatch, a gradient of type kNone
\* ends the call with a fatal error, the key as it was and nothing gathered.
C23_AsStated ==
    NoHandlerGradient =>
        /\ status # "ok"
        /\ key = pre.key
        /\ stack = pre.stack
        /\ CountOps(log, "begin") = 0

-----------------------------------------------------------------------------
(* Combination counts *)

RECURSIVE SumOf(_)
SumOf(seq) == IF seq = <<>> THEN 0 ELSE Head(seq) + SumOf(Tail(seq))

RECURSIVE ProductOf(_)
ProductOf(seq) == IF seq = <<>> THEN 1 ELSE Head(seq) * ProductOf(Tail(seq))

\* an option that stands for one alternative and has no child in any slot
Childless(b, i) ==
    /\ Intrinsic(b.arena[i]) = 1
    /\ \A k \in 1..Len(b.arena[i].slots) : b.arena[i].slots[k] = <<>>

TopLevel(b) == {b.shaderOptions[k] : k \in 1..Len(b.shaderOptions)}

\* every top-level option stands for one alternative and all its children are childless
OneLevel(b) ==
    \A p \in TopLevel(b) :
        /\ Intrinsic(b.arena[p]) = 1
        /\ \A k \in 1..Len(b.arena[p].slots) :
              \A j \in 1..Len(b.arena[p].slots[k]) : Childless(b, b.arena[p].slots[k][j])

\* the alternatives a slot offers: the children added to it, or the one way of
\* leaving it out
SlotWidth(slot) == IF slot = <<>> THEN 1 ELSE Len(slot)

OneLevelCount(b) ==
    SumOf([k \in 1..Len(b.shaderOptions) |->
              LET slots == b.arena[b.shaderOptions[k]].slots
              IN  ProductOf([j \in 1..Len(slots) |-> SlotWidth(slots[j])])])
        * Cardinality(b.blendModes)

AddedChild == lastOp.name = "addChildOption" /\ SkCombinationOption_isValid(lastOp.arg.handle)

\* the last call gave a top-level option's slot its second alternative
SecondAlternative ==
    /\ AddedChild
    /\ lastOp.arg.parent.fDataInArena \in TopLevel(combo)
    /\ Len(combo.arena[lastOp.arg.parent.fDataInArena].slots[lastOp.arg.childIndex + 1]) = 2

HeadSnippets(b, i) == {ShaderSnippet(b.arena[i], v) : v \in 1..Intrinsic(b.arena[i])}

\* the lists of alternatives of the builder: the top-level list and every slot
AlternativeLists(b) ==
    {b.shaderOptions}
        \cup UNION {{b.arena[i].slots[k] : k \in 1..Len(b.arena[i].slots)} :
                        i \in 1..Len(b.arena)}

\* no list offers two alternatives that begin with the same snippet, and no
\* option's own variants share one
DistinctAlternatives(b) ==
    /\ \A i \in 1..Len(b.arena) : Cardinality(HeadSnippets(b, i)) = Intrinsic(b.arena[i])
    /\ \A l \in AlternativeLists(b) :
          \A i, j \in 1..Len(l) :
              i # j => HeadSnippets(b, l[i]) \cap HeadSnippets(b, l[j]) = {}

-----------------------------------------------------------------------------
(* Option handles and reset *)

ValidHandles(c) == {h \in c.handles : SkCombinationOption_isValid(h)}

LiveBefore == {h \in ValidHandles(pre.client) : h.gen = pre.combo.gen}

BuilderCall ==
    lastOp.name \in {"addOption", "addChildOption", "addBlendMode", "addBlendModeRange",
                     "addBlendModeGroup"}

\* the option a live handle referred to is as it was, but for the slot a child
\* was added to, which holds the new option after the ones it held
SameOption(i) ==
    LET was == pre.combo.arena[i]
        is == combo.arena[i]
        grown == /\ AddedChild
                 /\ lastOp.arg.parent.fDataInArena = i
    IN  /\ is.type = was.type
        /\ Len(is.slots) = Len(was.slots)
        /\ Intrinsic(is) = Intrinsic(was)
        /\ \A k \in 1..Len(was.slots) :
              is.slots[k] = IF grown /\ k = lastOp.arg.childIndex + 1
                            THEN Append(was.slots[k], Len(combo.arena))
                            ELSE was.slots[k]

\* C27: between two resets a call to addOption or addChildOption leaves every
\* handle returned earlier valid and on the same option: isValid(), type() and
\* numChildSlots() answer as before, and a child added through a handle joins
\* the named slot of that handle's option and no other slot.
C27_HandlesAreStable ==
    BuilderCall =>
        \A h \in LiveBefore :
            /\ h \in ValidHandles(client)
            /\ ~IsStale(combo, h)
            /\ SkCombinationOption_type(combo, h) = SkCombinationOption_type(pre.combo, h)
            /\ SkCombinationOption_numChildSlots(combo, h)
                   = SkCombinationOption_numChildSlots(pre.combo, h)
            /\ SameOption(h.fDataInArena)

\* a child went into the second slot of one option while another handle was held
C27_Witness ==
    /\ AddedChild
    /\ lastOp.arg.childIndex = 1
    /\ lastOp.arg.parent \in LiveBefore
    /\ Cardinality(LiveBefore) >= 2
    /\ combo.arena[lastOp.arg.parent.fDataInArena].slots[2] = <<Len(combo.arena)>>

-----------------------------------------------------------------------------
(* Blend-mode alternatives *)

Values(modes) == {BlendModeValue(m) : m \in modes}

PorterDuffModes ==
    {"kClear", "kSrc", "kDst", "kSrcOver", "kDstOver", "kSrcIn", "kDstIn", "kSrcOut",
     "kDstOut", "kSrcATop", "kDstATop", "kXor", "kPlus", "kModulate", "kScreen"}

AdvancedModes ==
    {"kOverlay", "kDarken", "kLighten", "kColorDodge", "kColorBurn", "kHardLight",
     "kSoftLight", "kDifference", "kExclusion", "kMultiply"}

ColorAwareModes == {"kHue", "kSaturation", "kColor", "kLuminosity"}

GroupModes(group) ==
    CASE group = "kPorterDuff" -> PorterDuffModes
      [] group = "kAdvanced" -> AdvancedModes
      [] group = "kColorAware" -> ColorAwareModes
      [] group = "kAll" -> {SkBlendMode[i] : i \in 1..kSkBlendModeCount}

\* the modes from rangeStart to rangeEnd of the enum, both included
Between(rangeStart, rangeEnd) ==
    {SkBlendMode[i] : i \in (BlendModeValue(rangeStart) + 1)..(BlendModeValue(rangeEnd) + 1)}

\* what one group adds to a builder without blend modes
AddedByGroup(group) ==
    addOption_BlendModeGroup(EmptyCombinationBuilder(0), group).blendModes

\* the set the last blend-mode call asked for
Requested ==
    CASE lastOp.name = "addBlendMode" -> {lastOp.arg.mode}
      [] lastOp.name = "addBlendModeRange" -> Between(lastOp.arg.rangeStart, lastOp.arg.rangeEnd)
      [] lastOp.name = "addBlendModeGroup" -> GroupModes(lastOp.arg.group)

BlendModeCall == lastOp.name \in {"addBlendMode", "addBlendModeRange", "addBlendModeGroup"}

\* each group adds its range of the enum; the three groups are pairwise disjoint
\* and together are what kAll adds, which is every mode
GroupsPartitionTheModes ==
    /\ \A g \in BlendModeGroup : AddedByGroup(g) = Values(GroupModes(g))
    /\ \A g, h \in BlendModeGroup \ {"kAll"} :
          g # h => AddedByGroup(g) \cap AddedByGroup(h) = {}
    /\ UNION {AddedByGroup(g) : g \in BlendModeGroup \ {"kAll"}} = AddedByGroup("kAll")
    /\ AddedByGroup("kAll") = AllBlendModeValues

\* C28: the blend modes form a set.  A mode, an inclusive range or a group adds
\* exactly its modes to the set; kPorterDuff is kClear..kScreen, kAdvanced is
\* kOverlay..kMultiply, kColorAware is kHue..kLuminosity and kAll every
\* mode; the three groups are pairwise disjoint and together are kAll; adding
\* modes that are all present changes neither the set nor the count.
C28_BlendModesAreASet ==
    /\ GroupsPartitionTheModes
    /\ combo.blendModes \subseteq AllBlendModeValues
    /\ BlendModeCall =>
          /\ combo.blendModes = pre.combo.blendModes \cup Values(Requested)
          /\ Values(Requested) \subseteq pre.combo.blendModes =>
                /\ Cardinality(combo.blendModes) = Cardinality(pre.combo.blendModes)
                /\ numCombinations(combo) = numCombinations(pre.combo)

\* a mode of the Porter-Duff group is added after the group, with a shader option
\* in the builder, and the count stays what it was
C28_Witness ==
    /\ lastOp.name = "addBlendMode"
    /\ Values(PorterDuffModes) \subseteq pre.combo.blendModes
    /\ BlendModeValue(lastOp.arg.mode) \in pre.combo.blendModes
    /\ numCombinations(combo) = numCombinations(pre.combo)
    /\ numCombinations(combo) >= Cardinality(PorterDuffModes)

-----------------------------------------------------------------------------
(* SkBlenderID *)

CopiedOrAssigned == lastOp.name \in {"copy", "assign"}

\* C29: an SkBlenderID is valid exactly when its value is greater than 0; a
\* default-constructed one is invalid; copy construction and assignment give
\* the destination the source's value, validity and equalities and leave the
\* other identities alone.
C29_BlenderIDValidity ==
    /\ \A x \in BlenderIDVars :
          SkBlenderID_isValid(client.ids[x]) <=> asUInt(client.ids[x]) > 0
    /\ ~SkBlenderID_isValid(SkBlenderID_Default)
    /\ lastOp.name = "construct" => ~SkBlenderID_isValid(client.ids[lastOp.arg.dst])
    /\ CopiedOrAssigned =>
          LET src == pre.client.ids[lastOp.arg.src]
              dst == client.ids[lastOp.arg.dst]
          IN  /\ asUInt(dst) = asUInt(src)
              /\ SkBlenderID_isValid(dst) <=> SkBlenderID_isValid(src)
              /\ SkBlenderID_Equals(dst, src)
              /\ \A z \in BlenderIDVars :
                    SkBlenderID_Equals(dst, pre.client.ids[z])
                        <=> SkBlenderID_Equals(src, pre.client.ids[z])
              /\ \A z \in BlenderIDVars \ {lastOp.arg.dst} :
                    client.ids[z] = pre.client.ids[z]

\* an invalid identity has just been made valid by copying a different variable
C29_Witness ==
    /\ lastOp.name = "copy"
    /\ lastOp.arg.src # lastOp.arg.dst
    /\ ~SkBlenderID_isValid(pre.client.ids[lastOp.arg.dst])
    /\ SkBlenderID_isValid(client.ids[lastOp.arg.dst])
    /\ SkBlenderID_Equals(client.ids[lastOp.arg.dst], client.ids[lastOp.arg.src])

-----------------------------------------------------------------------------
(* The order of uniform writes and blocks *)

BeginPositions == {i \in 1..Len(log) : log[i].op = "begin"}

\* the position of the beginBlock before position p, or 0
PrevBegin(p) ==
    IF \E i \in BeginPositions : i < p
    THEN CHOOSE i \in BeginPositions : i < p /\ \A j \in BeginPositions : j < p => j <= i
    ELSE 0

\* the calls of one kind made since the beginBlock before the one at p
GroupEvents(p, op) ==
    LET g == SelectSeq(SubSeq(log, PrevBegin(p) + 1, p - 1), LAMBDA e : e.op = op)
    IN  [i \in 1..Len(g) |-> g[i].arg]

\* the layout of the writes that the writer of a built-in snippet makes
SnippetLayout(id) == (CHOOSE l \in ReleaseLayouts : l.snippet = id).shapes

IsRuntimeSnippet(id) == id > kBuiltInCodeSnippetIDCount

\* the writes ahead of the beginBlock at p are the ones of the snippet it begins
OwnWrites(p) ==
    LET id == log[p].arg.id
    IN  IF IsRuntimeSnippet(id)
        THEN Len(GroupEvents(p, "write"))
                 = Len(RuntimeEffects[dict[id - kBuiltInCodeSnippetIDCount]].uniforms)
        ELSE Shapes(GroupEvents(p, "write")) = SnippetLayout(id)

LogSelect(op) ==
    LET g == SelectSeq(log, LAMBDA e : e.op = op)
    IN  [i \in 1..Len(g) |-> g[i].arg]

Wrote == status = "ok" /\ gatherer /\ lastOp.name \in TreeOps

\* every writer of a built-in snippet, on a fresh builder and gatherer, makes
\* its beginBlock call once and last
WritersWriteFirst ==
    \A debug \in BOOLEAN :
        \A r \in BuiltInRuns(debug) :
            r.status = "ok" =>
                /\ r.log # <<>>
                /\ r.log[Len(r.log)].op = "begin"
                /\ CountOps(r.log, "begin") = 1
                /\ r.uniforms # <<>> => CountOps(r.log, "write") = Len(r.uniforms)

\* C30: the uniform writes and resource adds of a block are made before its
\* beginBlock, so before anything its children write: every write of a
\* conversion lies ahead of a beginBlock, the writes between two beginBlocks
\* are those of the snippet the second one begins, and the blob holds the
\* groups in the order in which the key holds the blocks.
C30_WritesBeforeBegin ==
    /\ WritersWriteFirst
    /\ Wrote =>
          /\ \A p \in BeginPositions : OwnWrites(p)
          /\ \A i \in 1..Len(log) :
                log[i].op \in {"write", "add"} => \E p \in BeginPositions : p > i
          /\ AddedUniforms = LogSelect("write")
          /\ key = pre.key
                    \o [i \in 1..Len(LogSelect("begin")) |-> LogSelect("begin")[i].id]

\* a runtime effect wrote its uniforms, began its block, and inside the block
\* its child wrote or added and began its own
C30_Witness ==
    /\ Wrote
    /\ RuntimeConverted
    /\ \E p, q \in BeginPositions :
          /\ PrevBegin(q) = p
          /\ IsRuntimeSnippet(log[p].arg.id)
          /\ GroupEvents(p, "write") # <<>>
          /\ GroupEvents(q, "write") \o GroupEvents(q, "add") # <<>>
          /\ \A i \in p..q : log[i].op # "end"

-----------------------------------------------------------------------------
(* Writers that take a data pointer *)

DataWriters ==
    {"LocalMatrixShaderBlock", "ImageShaderBlock", "YUVImageShaderBlock",
     "CoordClampShaderBlock", "DitherShaderBlock", "PerlinNoiseShaderBlock",
     "MatrixColorFilterBlock"}

\* the data pointer handed to the last writer
DataArg == IF lastOp.name = "DitherShaderBlock" THEN lastOp.arg.data ELSE lastOp.arg

\* exactly one of gatherer and data is null
Mismatch == gatherer = IsNull(DataArg)

NothingGathered == uniforms = pre.uniforms /\ resources = pre.resources

\* the last writer began its own snippet and made no other call
KeyBlockOnly ==
    LET id == ID(WriterSnippet[lastOp.name])
    IN  /\ status = "ok"
        /\ key = pre.key \o <<id>>
        /\ log = <<Ev("begin", [id |-> id])>>
        /\ NothingGathered

\* C31: in a writer that takes a data pointer, a call with exactly one of
\* gatherer and data null fails the assertion (debug build) before anything is
\* emitted; the data is read only under a gatherer, so a call with both null
\* returns with just the key block, and so does, where the assertion is compiled
\* out, a call with data but no gatherer; a gatherer with null data is then a
\* null dereference unless the writer falls back before it reads the data.
C31_DataOnlyWithGatherer ==
    lastOp.name \in DataWriters =>
        /\ (debugBuild /\ Mismatch) =>
              status = "abort" /\ key = pre.key /\ log = <<>> /\ NothingGathered
        /\ (~gatherer /\ IsNull(DataArg)) => KeyBlockOnly
        /\ (~gatherer /\ ~debugBuild) => KeyBlockOnly
        /\ (gatherer /\ ~debugBuild /\ IsNull(DataArg)) =>
              \/ status = "ub"
              \/ /\ lastOp.name = "DitherShaderBlock"
                 /\ lastOp.arg.proxy = "null"
                 /\ status = "ok"
                 /\ key = pre.key \o <<ID("kPriorOutput")>>

\* a matrix colour filter block was begun with neither gatherer nor data, in
\* a build that checks assertions
C31_Witness ==
    /\ lastOp.name = "MatrixColorFilterBlock"
    /\ debugBuild
    /\ ~gatherer
    /\ IsNull(DataArg)
    /\ KeyBlockOnly

-----------------------------------------------------------------------------
(* One block per effect *)

\* AddToKey was called on an effect that is not null, and returned
EffectConverted ==
    /\ lastOp.name = "AddToKey"
    /\ lastOp.arg.type # "null"
    /\ status = "ok"

\* the snippets that can stand for a colour filter; a table filter is begun as
\* itself when there is no gatherer to notice the missing proxy
FilterSnippets(f) ==
    IF f.type = "Table" THEN {ID("kPriorOutput"), ID("kTableColorFilter")}
    ELSE {RootSnippet(f)}

-----------------------------------------------------------------------------
(* Blend-mode blenders *)

BlendModeBlenderConverted ==
    /\ lastOp.name = "AddToKey"
    /\ effect.kind = "blender"
    /\ lastOp.arg.type = "BlendMode"

HasConstants(mode) == GetPorterDuffBlendConstants(mode) # <<>>

\* C33: AddToKey on a blend-mode blender returns and emits one block without
\* children: CoeffBlender when the mode has Porter-Duff constants, and then
\* the one uniform written is the four constants as a half4; BlendModeBlender
\* otherwise, and then the one uniform written is the mode as an int.  With
\* no gatherer the block is emitted and nothing is written.
C33_CoeffOrModeBlock ==
    BlendModeBlenderConverted =>
        LET mode == lastOp.arg.mode
            id == IF HasConstants(mode) THEN ID("kCoeffBlender") ELSE ID("kBlendModeBlender")
            writes == LogSelect("write")
        IN  /\ status = "ok"
            /\ Blocks = <<Ev("begin", [id |-> id]), Ev("end", [id |-> id])>>
            /\ key = pre.key \o <<id>>
            /\ stack = pre.stack
            /\ resources = pre.resources
            /\ ~gatherer => writes = <<>> /\ uniforms = pre.uniforms
            /\ gatherer =>
                   /\ Len(writes) = 1
                   /\ uniforms = pre.uniforms \o writes
                   /\ log[Len(log) - 1].op = "begin"
                   /\ HasConstants(mode) =>
                          /\ writes[1].ty = "kHalf4"
                          /\ Len(writes[1].val) = 4
                          /\ writes[1].val = GetPorterDuffBlendConstants(mode)
                   /\ ~HasConstants(mode) =>
                          writes[1] = W("write", "int", 1, <<SkBlendModeInt(mode)>>)

\* a mode with constants and a mode without were both converted with a
\* gatherer; the witness is the one with constants
C33_Witness ==
    /\ BlendModeBlenderConverted
    /\ gatherer
    /\ lastOp.arg.mode = "kSrcOver"
    /\ Blocks[1].arg.id = ID("kCoeffBlender")
    /\ LogSelect("write")[1].val = <<1, 0, 1, -1>>

-----------------------------------------------------------------------------
(* Colour-space transform colour filters *)

XformFilterConverted ==
    /\ lastOp.name = "AddToKey"
    /\ effect.kind = "colorFilter"
    /\ lastOp.arg.type = "ColorSpaceXform"
    /\ gatherer
    /\ status = "ok"

\* C34 as stated: the steps written for a colour-space transform colour
\* filter are those from the filter's source to the filter's destination
\* colour space, both premultiplied, so that a filter whose two colour spaces
\* differ writes a flags word that is not zero.
C34_AsStated ==
    XformFilterConverted =>
        LET f == lastOp.arg
            steps == SkColorSpaceXformSteps(f.src, "kPremul", f.dst, "kPremul")
            flagsWritten == LogSelect("write")[1].val[1]
        IN  /\ flagsWritten = FlagsMask(steps.flags)
            /\ f.src # f.dst => flagsWritten # 0

\* what the code does: the steps go from the filter's source to the filter's
\* source, so the flags word is zero whatever the destination is
C34_StepsFromSrcToSrc ==
    XformFilterConverted =>
        LET f == lastOp.arg
            steps == SkColorSpaceXformSteps(f.src, "kPremul", f.src, "kPremul")
        IN  /\ LogSelect("write")[1].val[1] = FlagsMask(steps.flags)
            /\ LogSelect("write")[1].val[1] = 0
            /\ Blocks = <<Ev("begin", [id |-> ID("kColorSpaceXformColorFilter")]),
                          Ev("end", [id |-> ID("kColorSpaceXformColorFilter")])>>

C34_Witness ==
    /\ XformFilterConverted
    /\ lastOp.arg.src = "srgb"
    /\ lastOp.arg.dst = "p3"
    /\ FlagsMask(SkColorSpaceXformSteps("srgb", "kPremul", "p3", "kPremul").flags) # 0

-----------------------------------------------------------------------------
(* The local matrix uniform *)

LocalMatrixWritten ==
    /\ lastOp.name = "LocalMatrixShaderBlock"
    /\ gatherer
    /\ ~IsNull(lastOp.arg)

\* the inverse of each matrix token, where there is one
InverseOf(m) == CASE m = 1 -> 1 [] m = 2 -> 3 [] m = 3 -> 2

Invertible(m) == m # 0

\* C35: LocalMatrixShaderBlock::BeginBlock, given a gatherer and its data,
\* returns, writes one SkM44 uniform and then begins kLocalMatrixShader.  The
\* uniform is the inverse of the local matrix when it has one and the
\* identity when it has none; a failed inversion stops nothing, and the key
\* and every event other than the value written are the same as for a matrix
\* that has an inverse.
C35_InverseOrIdentity ==
    LocalMatrixWritten =>
        LET m == lastOp.arg.fLocalMatrix
            id == ID("kLocalMatrixShader")
            writes == LogSelect("write")
        IN  /\ status = "ok"
            /\ Len(writes) = 1
            /\ writes[1].fn = "write" /\ writes[1].ty = "SkM44" /\ writes[1].n = 1
            /\ Invertible(m) => writes[1].val = <<InverseOf(m)>>
            /\ ~Invertible(m) => writes[1].val = SkM44_Identity
            /\ uniforms = pre.uniforms \o writes
            /\ resources = pre.resources
            /\ key = pre.key \o <<id>>
            /\ stack = pre.stack \o <<id>>
            /\ Blocks = <<Ev("begin", [id |-> id])>>
            /\ log[Len(log)] = Ev("begin", [id |-> id])
            /\ Len(log) = IF debugBuild THEN 3 ELSE 2

\* the singular matrix was given and the identity written
C35_Witness ==
    /\ LocalMatrixWritten
    /\ lastOp.arg.fLocalMatrix = 0
    /\ status = "ok"
    /\ LogSelect("write") = <<W("write", "SkM44", 1, SkM44_Identity)>>
    /\ key = pre.key \o <<ID("kLocalMatrixShader")>>

-----------------------------------------------------------------------------
(* The scope of a ScopedRenderContext *)

\* the context of the object that holds the scope, before and after the call
CtxBefore == pre.scoped.obj[Cur].fCtx

CtxAfter == scoped.obj[Cur].fCtx

\* C36: whatever was called on a ScopedRenderContext, and however many layers
\* those calls saved, the destructor of the object that holds the scope leaves
\* the canvas with the save count it had when the ScopedRenderContext was
\* constructed, and with the saves it had then.  The destructor of an object
\* that was moved from leaves the canvas alone: the scope went with the move.
C36_DestructorRestoresSaveCount ==
    lastOp.name = "destroy" =>
        LET o == lastOp.arg.obj
            held == pre.scoped.obj[o].fRestoreCount >= 0
        IN  /\ held =>
                 /\ getSaveCount(canvas) = scoped.atConstruction
                 /\ canvas.saves = SubSeq(pre.canvas.saves, 1, scoped.atConstruction - 1)
            /\ ~held =>
                 /\ canvas = pre.canvas
                 /\ o = "temp" /\ scoped.life["local"] = "alive"
            /\ (\A x \in ScopedObjects : scoped.life[x] # "alive") =>
                 getSaveCount(canvas) = scoped.atConstruction

\* two layers were saved on a canvas that had one save of its own, and the
\* destructor took the canvas back to that one save
C36_Witness ==
    /\ lastOp.name = "destroy"
    /\ pre.scoped.obj[lastOp.arg.obj].fRestoreCount = 2
    /\ getSaveCount(pre.canvas) = 4
    /\ canvas.saves = <<"save">>

-----------------------------------------------------------------------------
(* The topmost shader *)

ModulateCalls ==
    {"modulateOpacity", "modulateColorFilter", "modulateShader", "modulateBlendMode"}

\* C37: once a context has a shader, no modulate call changes the shader or
\* its CTM: modulateShader leaves the whole context as it was.  On a context
\* without a shader modulateShader records the shader and the CTM it is given.
\* The shader goes only when an isolation layer resets the context.
C37_TopmostShaderWins ==
    /\ lastOp.name \in ModulateCalls /\ CtxBefore.fShader # "null" =>
          /\ CtxAfter.fShader = CtxBefore.fShader
          /\ CtxAfter.fShaderCTM = CtxBefore.fShaderCTM
    /\ lastOp.name = "modulateShader" =>
          IF CtxBefore.fShader # "null"
          THEN CtxAfter = CtxBefore
          ELSE /\ CtxAfter.fShader = lastOp.arg.sh
               /\ CtxAfter.fShaderCTM = lastOp.arg.shader_ctm
    /\ lastOp.name \in {"setIsolation", "setFilterIsolation"}
          /\ CtxAfter.fShader # CtxBefore.fShader =>
          /\ CtxAfter = RenderContext_Default
          /\ getSaveCount(canvas) = getSaveCount(pre.canvas) + 1

\* a second shader, under another CTM, was offered to a context that had one
C37_Witness ==
    /\ lastOp.name = "modulateShader"
    /\ CtxBefore.fShader = "shA"
    /\ CtxBefore.fShaderCTM = 1
    /\ lastOp.arg = [sh |-> "shB", shader_ctm |-> 2]
    /\ CtxAfter.fShader = "shA"
    /\ CtxAfter.fShaderCTM = 1

-----------------------------------------------------------------------------
(* modulatePaint *)

\* the context has nothing to say about this paint
NothingToModulate(ctx, paint) ==
    /\ ModulatedAlpha(paint.alpha, ctx.fOpacity) = paint.alpha
    /\ ctx.fColorFilter = <<>>
    /\ ctx.fShader = "null"
    /\ ctx.fBlendMode = paint.blendMode

\* C38: modulatePaint returns false, and then leaves the paint as it was,
\* exactly when the modulated alpha is the paint's alpha, the context has no
\* colour filter and no shader, and the context's blend mode is the paint's.
\* Otherwise it returns true and the paint has the modulated alpha, the
\* context's colour filter composed over its own, and the context's blend
\* mode; when the context has a shader the paint gets it, as it is when the
\* CTM is the shader's CTM, wrapped in Inv(ctm) x shaderCTM when the CTM is
\* another one that can be inverted, and not at all when the CTM cannot be
\* inverted; when the context has no shader the paint keeps its own.
C38_ModulatePaint ==
    lastOp.name = "modulatePaint" =>
        LET ctx == scoped.obj[Cur].fCtx
            in == lastOp.arg.paint
            out == lastOp.arg.out
            ctm == lastOp.arg.ctm
        IN  /\ lastOp.arg.ret = ~NothingToModulate(ctx, in)
            /\ ~lastOp.arg.ret => out = in
            /\ lastOp.arg.ret =>
                 /\ out.alpha = ModulatedAlpha(in.alpha, ctx.fOpacity)
                 /\ out.colorFilter = MakeComposeFilter(ctx.fColorFilter, in.colorFilter)
                 /\ out.blendMode = ctx.fBlendMode
                 /\ out.imageFilter = in.imageFilter
                 /\ ctx.fShader = "null" => out.shader = in.shader
                 /\ ctx.fShader # "null" /\ ctm = ctx.fShaderCTM =>
                        out.shader = [sh |-> ctx.fShader, lm |-> <<>>]
                 /\ ctx.fShader # "null" /\ ctm # ctx.fShaderCTM /\ ctm # 0 =>
                        out.shader = [sh |-> ctx.fShader,
                                      lm |-> <<SkMatrix_invert(ctm)[2], ctx.fShaderCTM>>]
                 /\ ctx.fShader # "null" /\ ctm # ctx.fShaderCTM /\ ctm = 0 =>
                        out.shader = in.shader

\* a context with a shader and half opacity modulated a paint under a CTM that
\* cannot be inverted: the paint has the alpha and kept its own shader
C38_Witness ==
    /\ lastOp.name = "modulatePaint"
    /\ lastOp.arg.ret
    /\ lastOp.arg.ctm = 0
    /\ scoped.obj[Cur].fCtx.fShader = "shA"
    /\ scoped.obj[Cur].fCtx.fOpacity = <<1, 2>>
    /\ lastOp.arg.paint.shader = PaintShader("shP")
    /\ lastOp.arg.out.shader = PaintShader("shP")
    /\ lastOp.arg.paint.alpha = 255
    /\ lastOp.arg.out.alpha = 128

-----------------------------------------------------------------------------
(* Isolation layers *)

\* the layer paint the isolation calls start from, as the context modulates it
LayerPaint == modulatePaint(CtxBefore, lastOp.arg.ctm, SkPaint_Default)

\* C39: setIsolation saves one layer, with the default paint as the context
\* modulates it, and resets the context to the default one exactly when
\* isolation is asked for and modulatePaint reports a modification; otherwise
\* the canvas and the context are as before.  setFilterIsolation always saves
\* one layer, whose paint carries the image filter, and always resets the
\* context.  So whenever a layer was saved the context that remains for the
\* content is the default one: what went into the layer paint is not applied
\* to the content again.
C39_IsolationLayers ==
    /\ lastOp.name = "setIsolation" =>
          IF lastOp.arg.isolation /\ LayerPaint.ret
          THEN /\ canvas.saves = pre.canvas.saves \o <<[layer |-> LayerPaint.paint]>>
               /\ CtxAfter = RenderContext_Default
          ELSE /\ canvas = pre.canvas
               /\ CtxAfter = CtxBefore
    /\ lastOp.name = "setFilterIsolation" =>
          /\ canvas.saves = pre.canvas.saves
                 \o <<[layer |-> [LayerPaint.paint EXCEPT !.imageFilter = lastOp.arg.filter]]>>
          /\ CtxAfter = RenderContext_Default
    /\ lastOp.name \in {"setIsolation", "setFilterIsolation"}
          /\ getSaveCount(canvas) > getSaveCount(pre.canvas) =>
          /\ getSaveCount(canvas) = getSaveCount(pre.canvas) + 1
          /\ CtxAfter = RenderContext_Default
          /\ \A paint \in PaintInputs, ctm \in CTMInputs :
                LET m == modulatePaint(CtxAfter, ctm, paint)
                IN  /\ m.paint.alpha = paint.alpha
                    /\ m.paint.colorFilter = paint.colorFilter
                    /\ m.paint.shader = paint.shader

\* isolation was asked for on a context with half opacity and a colour
\* filter: the layer has both and the context has neither
C39_Witness ==
    /\ lastOp.name = "setIsolation"
    /\ lastOp.arg.isolation
    /\ CtxBefore.fOpacity = <<1, 2>>
    /\ CtxBefore.fColorFilter = <<"cfA">>
    /\ canvas.saves[Len(canvas.saves)].layer.alpha = 128
    /\ canvas.saves[Len(canvas.saves)].layer.colorFilter = <<"cfA">>
    /\ CtxAfter = RenderContext_Default

-----------------------------------------------------------------------------
(* Equality of ShaderData *)

SameContents(u, v) ==
    \/ IsNull(u) /\ IsNull(v)
    \/ ~IsNull(u) /\ ~IsNull(v) /\ u.bytes = v.bytes

\* C40: two ShaderData compare equal exactly when they hold the same effect
\* and their uniform data are both null or both present with the same
\* contents; a ShaderData without uniform data never equals one with uniform
\* data, whichever side it is on; and the comparison is reflexive, symmetric
\* and transitive.
C40_ShaderDataEquality ==
    lastOp.name = "equals" =>
        LET l == lastOp.arg.lhs
            r == lastOp.arg.rhs
            ret == lastOp.arg.ret
        IN  /\ ret = (l.fEffect = r.fEffect /\ SameContents(l.fUniforms, r.fUniforms))
            /\ IsNull(l.fUniforms) # IsNull(r.fUniforms) =>
                  ~ret /\ ~ShaderData_Equals(r, l)
            /\ ShaderData_Equals(l, l)
            /\ ShaderData_Equals(r, l) = ret
            /\ \A c \in ShaderDataValues :
                  ret /\ ShaderData_Equals(r, c) => ShaderData_Equals(l, c)

\* two ShaderData of one effect compared equal whose uniform data are two
\* objects with the same two bytes
C40_Witness ==
    /\ lastOp.name = "equals"
    /\ lastOp.arg.ret
    /\ lastOp.arg.lhs.fUniforms = [ptr |-> "d1", bytes |-> <<1, 2>>]
    /\ lastOp.arg.rhs.fUniforms = [ptr |-> "d2", bytes |-> <<1, 2>>]
====
